---- MODULE Spec2Model ----
(***************************************************************************)
(* A model of the blocktastic validation pipeline:                         *)
(*   validator.rs  BlockValidator (active tree, archived chain)            *)
(*   builder.rs    BlockChainBuilder (ingest, dedup, worker threads,       *)
(*                 shutdown) and Orphanage                                 *)
(*   lib.rs        Hash::from_bits, Block::id, Block::computed_merkle_root *)
(*                                                                         *)
(* Hashes of block headers are modelled by small naturals: the double      *)
(* SHA-256 of a header is an injective function of the header, and every   *)
(* header of the block universe below carries a distinct nonce, so the     *)
(* nonce stands for the 32-byte digest (read as a big-endian number).      *)
(***************************************************************************)
EXTENDS Integers, Sequences, FiniteSets, TLC

(***************************************************************************)
(* Program constants.                                                      *)
(***************************************************************************)
MAX_SUPPORTED_BLOCK_VERSION == 4
TWO_HOURS_IN_SECONDS == 7200
RETARGET_INTERVAL == 2016
HASH_BYTES == 32

(***************************************************************************)
(* Bounds.  MAX_ACTIVE_HEIGHT is 144 and ARBITRARY_ORPHANAGE_SIZE is 128   *)
(* in the source; the model scales both down so that archiving and         *)
(* eviction happen within a few blocks.  The block universe below grows    *)
(* with MAX_ACTIVE_HEIGHT, so the archive horizon is always crossed.       *)
(***************************************************************************)
MAX_ACTIVE_HEIGHT == 2
ARBITRARY_ORPHANAGE_SIZE == 2
\* seconds since the epoch returned by the wall clock when it can be read
NowSecs == 1000

(***************************************************************************)
(* Small helpers for maps (HashMap) as TLA+ functions.                     *)
(***************************************************************************)
MapInsert(m, k, v) == [x \in (DOMAIN m) \cup {k} |-> IF x = k THEN v ELSE m[x]]
MapRemove(m, k) == [x \in (DOMAIN m) \ {k} |-> m[x]]
EmptyMap == [x \in {} |-> 0]

RECURSIVE Perms(_)
Perms(S) ==
    IF S = {} THEN {<<>>}
    ELSE UNION {{<<x>> \o p : p \in Perms(S \ {x})} : x \in S}

(***************************************************************************)
(* lib.rs: Hash.  The 32-byte array is a sequence of 32 bytes, index 1     *)
(* being the most significant one (array index 0 in the source).           *)
(***************************************************************************)
zero == [i \in 1..HASH_BYTES |-> 0]

\* The 32-byte big-endian array of a digest given as a number below 2^24.
HashOfNat(n) ==
    [i \in 1..HASH_BYTES |->
        IF i = HASH_BYTES THEN n % 256
        ELSE IF i = HASH_BYTES - 1 THEN (n \div 256) % 256
        ELSE IF i = HASH_BYTES - 2 THEN (n \div 65536) % 256
        ELSE 0]

\* derive(PartialOrd) on Hash([u8; 32]): lexicographic order of the bytes
\* (p holds the two operands, evaluated once).
HashLess(a, b) ==
    \E p \in {<<a, b>>} :
    \E i \in 1..HASH_BYTES :
        /\ p[1][i] < p[2][i]
        /\ \A j \in 1..(i - 1) : p[1][j] = p[2][j]

\* The body of the `for _ in 0..3` loop of from_bits, n iterations left.
\* ix is the array index of the source (0-based).
RECURSIVE from_bits_loop(_, _, _, _)
from_bits_loop(target_bytes, coefficient, ix, n) ==
    IF n = 0 THEN [bytes |-> target_bytes, coefficient |-> coefficient]
    ELSE LET coeff_byte == coefficient % 256
             placed == IF ix < HASH_BYTES
                       THEN [target_bytes EXCEPT ![ix + 1] = coeff_byte]
                       ELSE target_bytes
             shifted == coefficient \div 256
         IN  IF ix = 0
             THEN [bytes |-> placed, coefficient |-> shifted]
             ELSE from_bits_loop(placed, shifted, ix - 1, n - 1)

\* Option<Hash>: some = FALSE is None.
\* A faulty from_bits, for comparison: what is left of the coefficient
\* after the loop is not looked at.
from_bits_unchecked(bits) ==
    LET coefficient == bits % 16777216
        exponent == bits \div 16777216
    IN  IF coefficient = 0 THEN [some |-> TRUE, hash |-> zero]
        ELSE IF exponent > 34 THEN [some |-> FALSE, hash |-> zero]
        ELSE LET r == from_bits_loop(zero, coefficient, 34 - exponent, 3)
             IN  [some |-> TRUE, hash |-> r.bytes]

\* Another faulty from_bits: only the top byte of what is left of the
\* coefficient counts as an overflow.
from_bits_top_byte_only(bits) ==
    LET coefficient == bits % 16777216
        exponent == bits \div 16777216
    IN  IF coefficient = 0 THEN [some |-> TRUE, hash |-> zero]
        ELSE IF exponent > 34 THEN [some |-> FALSE, hash |-> zero]
        ELSE LET r == from_bits_loop(zero, coefficient, 34 - exponent, 3)
             IN  IF r.coefficient \div 256 # 0
                 THEN [some |-> FALSE, hash |-> zero]
                 ELSE [some |-> TRUE, hash |-> r.bytes]

from_bits(bits) ==
    LET coefficient == bits % 16777216
        exponent == bits \div 16777216
    IN  IF coefficient = 0 THEN [some |-> TRUE, hash |-> zero]
        ELSE IF exponent > 34 THEN [some |-> FALSE, hash |-> zero]
        ELSE LET r == from_bits_loop(zero, coefficient, 34 - exponent, 3)
             IN  IF r.coefficient # 0
                 THEN [some |-> FALSE, hash |-> zero]
                 ELSE [some |-> TRUE, hash |-> r.bytes]

(***************************************************************************)
(* lib.rs: transactions and the merkle root.  A digest inside the merkle   *)
(* tree is a flat sequence of numbers (a prefix code of the hashed         *)
(* content), so distinct contents have distinct digests.  <<>> is the      *)
(* zero hash.  Byte reversal is an involution that fixes the zero hash:    *)
(* it is modelled by a leading mark.                                       *)
(***************************************************************************)
ZeroDigest == <<>>
RevMark == 0 - 1
PairMark == 0 - 2

reverse(h) ==
    IF h = ZeroDigest THEN h
    ELSE IF Head(h) = RevMark THEN Tail(h)
    ELSE <<RevMark>> \o h

\* Transaction::strip_witness_data: flags cleared, every other field kept
\* (the inputs, and with them their witness_stuff, are cloned).
strip_witness_data(tx) == [tx EXCEPT !.flags = 0]

\* Transaction::serialize_le: the witness stacks are written only when the
\* WITNESS flag is set.
serialize_tx(tx) ==
    IF tx.flags # 0
    THEN <<tx.core, tx.flags, tx.witness_stuff>>
    ELSE <<tx.core>>

\* hash::double_sha256 of a transaction: reverse(sha256(sha256(bytes))).
double_sha256_tx(tx) == reverse(serialize_tx(tx))

\* sha256(sha256(a || b)), not reversed (lib.rs 335-337).
hash_pair(a, b) == <<PairMark, Len(a)>> \o a \o b

\* A faulty adjust_count, for comparison: an odd layer is not padded.
adjust_count_no_padding(count) == count

adjust_count(count) ==
    IF count = 1 THEN 1
    ELSE IF count % 2 = 1 THEN count + 1
    ELSE count

\* A faulty layer loop, for comparison: an odd layer is filled up with the
\* zero hash.
RECURSIVE merkle_layers_zero_padded(_, _)
merkle_layers_zero_padded(layer_size, layer_hashes) ==
    IF layer_size > 1
    THEN LET padded == IF layer_size > Len(layer_hashes)
                       THEN Append(layer_hashes, ZeroDigest)
                       ELSE layer_hashes
             next_hashes == [k \in 1..(layer_size \div 2) |->
                                hash_pair(padded[2 * k - 1], padded[2 * k])]
         IN  merkle_layers_zero_padded(adjust_count(layer_size \div 2), next_hashes)
    ELSE layer_hashes

RECURSIVE merkle_layers(_, _)
merkle_layers(layer_size, layer_hashes) ==
    IF layer_size > 1
    THEN LET padded == IF layer_size > Len(layer_hashes)
                       THEN Append(layer_hashes, layer_hashes[Len(layer_hashes)])
                       ELSE layer_hashes
             next_hashes == [k \in 1..(layer_size \div 2) |->
                                hash_pair(padded[2 * k - 1], padded[2 * k])]
         IN  merkle_layers(adjust_count(layer_size \div 2), next_hashes)
    ELSE layer_hashes

computed_merkle_root(transactions) ==
    IF transactions = <<>> THEN ZeroDigest
    ELSE LET leaves == [k \in 1..Len(transactions) |->
                           reverse(double_sha256_tx(strip_witness_data(transactions[k])))]
         IN  reverse(merkle_layers(adjust_count(Len(transactions)), leaves)[1])

(***************************************************************************)
(* The block universe.  Every block is identified by the nonce of its      *)
(* header.                                                                 *)
(*   1 .. ChainLen   the main chain, block 1 being a genesis block         *)
(*   21, 22          a fork off block 1                                    *)
(*   31              a second genesis block                                *)
(*   41, 42          blocks whose parent (99, 98) never exists; 42 has an  *)
(*                   unsupported version besides                           *)
(*   51 .. 57        blocks that fail one validation check each            *)
(***************************************************************************)
ZeroHash == 0
ChainLen == MAX_ACTIVE_HEIGHT + 2
GoodBits == 3 * 16777216 + 127
OtherBits == 3 * 16777216 + 126
LowBits == 3 * 16777216 + 16
OverflowBits == 35 * 16777216 + 1

MainIds == 1..ChainLen
ForkIds == {21, 22}
SecondIds == {31}
LostIds == {41, 42}
BadIds == 51..57
BlockIds == MainIds \cup ForkIds \cup SecondIds \cup LostIds \cup BadIds

PrevOf(n) ==
    IF n \in MainIds THEN n - 1
    ELSE IF n = 21 THEN 1
    ELSE IF n = 22 THEN 21
    ELSE IF n = 31 THEN ZeroHash
    ELSE IF n = 41 THEN 99
    ELSE IF n = 42 THEN 98
    ELSE IF n \in {51, 52} THEN 1
    ELSE ZeroHash

Tx(n, w) == [core |-> n, flags |-> IF w = 0 THEN 0 ELSE 1, witness_stuff |-> w]

\* Block 1 carries a witness transaction, block 2 three transactions (an
\* odd layer); every other block carries its coinbase alone.
TxsOf(n) ==
    IF n = 1 THEN <<Tx(1, 0), Tx(101, 7)>>
    ELSE IF n = 2 THEN <<Tx(2, 0), Tx(102, 0), Tx(202, 0)>>
    ELSE <<Tx(n, 0)>>

MakeBlock(n) ==
    [network |-> "MainNet",
     header |->
        [version |-> IF n \in {42, 53} THEN MAX_SUPPORTED_BLOCK_VERSION + 1 ELSE 1,
         prev_block_hash |-> PrevOf(n),
         merkle_root |-> computed_merkle_root(IF n = 54 THEN <<Tx(1, 0)>>
                                              ELSE TxsOf(n)),
         time |-> IF n = 51 THEN 101
                  ELSE IF n = 55 THEN NowSecs + TWO_HOURS_IN_SECONDS + 1
                  ELSE 100 + n,
         bits |-> IF n = 52 THEN OtherBits
                  ELSE IF n = 56 THEN OverflowBits
                  ELSE IF n = 57 THEN LowBits
                  ELSE GoodBits,
         nonce |-> n],
     transactions |-> TxsOf(n)]

BlockTable == [n \in BlockIds |-> MakeBlock(n)]
BlockOf(n) == BlockTable[n]

\* Block 1 with other witness data: other bytes, the same header.
AltBlock1 == [BlockOf(1) EXCEPT !.transactions = <<Tx(1, 0), Tx(101, 8)>>]

Blocks == {BlockOf(n) : n \in BlockIds} \cup {AltBlock1}

(***************************************************************************)
(* A chain as long as a difficulty period.  The block of the chain at      *)
(* height k has the nonce 1000 + k; a nonce above 10000 is a variant of    *)
(* the chain block of the same last four digits:                           *)
(*   1000 .. 3015   the first period, all of the same bits                 *)
(*   3016 .. 3018   the start of the second period, of other bits          *)
(*   13016          height 2016, the bits of the first period              *)
(*   23016          height 2016, bits that do not decode                   *)
(*   33016          height 2016, the time of its parent                    *)
(*   43016          height 2016, time two hours ahead of the clock         *)
(*   53016          height 2016, a second more than that                   *)
(*   63016          height 2016, an unsupported version                    *)
(*   13017          height 2017, the bits of the first period              *)
(*   13015          height 2015, the bits of the second period             *)
(***************************************************************************)
PeriodBits == 5 * 16777216 + 127
NextBits == 5 * 16777216 + 126

LongChainId(height) == 1000 + height
LongHeight(n) == (n % 10000) - 1000
LongMenuIds == {3016, 3017, 3018, 13015, 13016, 13017, 23016, 33016, 43016,
                53016, 63016}

MakeLongBlock(n) ==
    [network |-> "MainNet",
     header |->
        [version |-> IF n = 63016 THEN MAX_SUPPORTED_BLOCK_VERSION + 1 ELSE 1,
         prev_block_hash |-> IF LongHeight(n) = 0 THEN ZeroHash
                             ELSE LongChainId(LongHeight(n) - 1),
         merkle_root |-> computed_merkle_root(<<Tx(n, 0)>>),
         time |-> IF n = 33016 THEN LongChainId(LongHeight(n) - 1)
                  ELSE IF n = 43016 THEN NowSecs + TWO_HOURS_IN_SECONDS
                  ELSE IF n = 53016 THEN NowSecs + TWO_HOURS_IN_SECONDS + 1
                  ELSE LongChainId(LongHeight(n)),
         bits |-> IF n = 23016 THEN OverflowBits
                  ELSE IF n \in {13016, 13017} THEN PeriodBits
                  ELSE IF n = 13015 THEN NextBits
                  ELSE IF LongHeight(n) >= RETARGET_INTERVAL THEN NextBits
                  ELSE PeriodBits,
         nonce |-> n],
     transactions |-> <<Tx(n, 0)>>]

LongBlocks == {MakeLongBlock(n) : n \in LongMenuIds}

\* block.computed_merkle_root(), computed once for each block there is.
MerkleRoots ==
    [block \in Blocks \cup LongBlocks |-> computed_merkle_root(block.transactions)]

\* hash::double_sha256 of a block header (see the head of the module).
double_sha256_header(header) == header.nonce

\* Block::id
id(block) == double_sha256_header(block.header)

\* SystemTime::now().duration_since(UNIX_EPOCH): a negative value stands
\* for the Err case (the clock is before the epoch).
ClockErr == 0 - 1
Clocks == {ClockErr, NowSecs}

\* overflow-checks on (debug profile) or off (release profile)
Builds == {"debug", "release"}

(***************************************************************************)
(* validator.rs: BlockValidator.                                           *)
(***************************************************************************)
\* A faulty validate_block, for comparison: the id is not compared with the
\* target.
validate_block_no_target(active, block, height, clock) ==
    IF block.header.version > MAX_SUPPORTED_BLOCK_VERSION THEN "version"
    ELSE IF MerkleRoots[block] # block.header.merkle_root
    THEN "merkle"
    ELSE IF clock < 0 THEN "clock"
    ELSE IF block.header.time > clock + TWO_HOURS_IN_SECONDS THEN "future"
    ELSE LET target == from_bits(block.header.bits)
         IN  IF ~target.some THEN "bits"
             ELSE IF height = 0 THEN "ok"
             ELSE LET parent == active[block.header.prev_block_hash]
                  IN  IF block.header.time <= parent.block.header.time THEN "time"
                      ELSE IF (height % RETARGET_INTERVAL) = 0 THEN "ok"
                      ELSE IF block.header.bits # parent.block.header.bits
                      THEN "retarget"
                      ELSE "ok"

\* A faulty validate_block, for comparison: the merkle root is not checked.
validate_block_no_merkle(active, block, height, clock) ==
    IF block.header.version > MAX_SUPPORTED_BLOCK_VERSION THEN "version"
    ELSE IF clock < 0 THEN "clock"
    ELSE IF block.header.time > clock + TWO_HOURS_IN_SECONDS THEN "future"
    ELSE LET target == from_bits(block.header.bits)
         IN  IF ~target.some THEN "bits"
             ELSE IF ~HashLess(HashOfNat(id(block)), target.hash) THEN "target"
             ELSE IF height = 0 THEN "ok"
             ELSE LET parent == active[block.header.prev_block_hash]
                  IN  IF block.header.time <= parent.block.header.time THEN "time"
                      ELSE IF (height % RETARGET_INTERVAL) = 0 THEN "ok"
                      ELSE IF block.header.bits # parent.block.header.bits
                      THEN "retarget"
                      ELSE "ok"

\* The third does not compare the bits with the parent's.
validate_block_any_bits(active, block, height, clock) ==
    IF block.header.version > MAX_SUPPORTED_BLOCK_VERSION THEN "version"
    ELSE IF MerkleRoots[block] # block.header.merkle_root
    THEN "merkle"
    ELSE IF clock < 0 THEN "clock"
    ELSE IF block.header.time > clock + TWO_HOURS_IN_SECONDS THEN "future"
    ELSE LET target == from_bits(block.header.bits)
         IN  IF ~target.some THEN "bits"
             ELSE IF ~HashLess(HashOfNat(id(block)), target.hash) THEN "target"
             ELSE IF height = 0 THEN "ok"
             ELSE LET parent == active[block.header.prev_block_hash]
                  IN  IF block.header.time <= parent.block.header.time THEN "time"
                      ELSE "ok"

\* The fourth rejects a block whose time is two hours ahead of the clock
\* to the second.
validate_block_exclusive_bound(active, block, height, clock) ==
    IF block.header.version > MAX_SUPPORTED_BLOCK_VERSION THEN "version"
    ELSE IF MerkleRoots[block] # block.header.merkle_root
    THEN "merkle"
    ELSE IF clock < 0 THEN "clock"
    ELSE IF block.header.time >= clock + TWO_HOURS_IN_SECONDS THEN "future"
    ELSE LET target == from_bits(block.header.bits)
         IN  IF ~target.some THEN "bits"
             ELSE IF ~HashLess(HashOfNat(id(block)), target.hash) THEN "target"
             ELSE IF height = 0 THEN "ok"
             ELSE LET parent == active[block.header.prev_block_hash]
                  IN  IF block.header.time <= parent.block.header.time THEN "time"
                      ELSE IF (height % RETARGET_INTERVAL) = 0 THEN "ok"
                      ELSE IF block.header.bits # parent.block.header.bits
                      THEN "retarget"
                      ELSE "ok"

\* validate_block: "ok" or the check that failed.
validate_block(active, block, height, clock) ==
    IF block.header.version > MAX_SUPPORTED_BLOCK_VERSION THEN "version"
    ELSE IF MerkleRoots[block] # block.header.merkle_root
    THEN "merkle"
    ELSE IF clock < 0 THEN "clock"
    ELSE IF block.header.time > clock + TWO_HOURS_IN_SECONDS THEN "future"
    ELSE LET target == from_bits(block.header.bits)
         IN  IF ~target.some THEN "bits"
             ELSE IF ~HashLess(HashOfNat(id(block)), target.hash) THEN "target"
             ELSE IF height = 0 THEN "ok"
             ELSE LET parent == active[block.header.prev_block_hash]
                  IN  IF block.header.time <= parent.block.header.time THEN "time"
                      ELSE IF (height % RETARGET_INTERVAL) = 0 THEN "ok"
                      ELSE IF block.header.bits # parent.block.header.bits
                      THEN "retarget"
                      ELSE "ok"

\* A faulty walk, for comparison: one parent link short, so that one block
\* more is archived.
RECURSIVE walk_up_short(_, _, _, _)
walk_up_short(active, iter_hash, active_root, n) ==
    IF n <= 1
    THEN [panic |-> FALSE, active_root |-> active_root, iter_hash |-> iter_hash]
    ELSE IF iter_hash \notin DOMAIN active
    THEN [panic |-> TRUE, active_root |-> active_root, iter_hash |-> iter_hash]
    ELSE walk_up_short(active, active[iter_hash].block.header.prev_block_hash,
                       iter_hash, n - 1)

\* Another faulty walk: active_root is never moved off the leaf.
RECURSIVE walk_up_root_is_leaf(_, _, _, _)
walk_up_root_is_leaf(active, iter_hash, active_root, n) ==
    IF n = 0
    THEN [panic |-> FALSE, active_root |-> active_root, iter_hash |-> iter_hash]
    ELSE IF iter_hash \notin DOMAIN active
    THEN [panic |-> TRUE, active_root |-> active_root, iter_hash |-> iter_hash]
    ELSE walk_up_root_is_leaf(active,
                              active[iter_hash].block.header.prev_block_hash,
                              active_root, n - 1)

\* archive_old_blocks, lines 106-114: n parent links still to walk.  The
\* unwrap of a missing entry panics.
RECURSIVE walk_up(_, _, _, _)
walk_up(active, iter_hash, active_root, n) ==
    IF n = 0
    THEN [panic |-> FALSE, active_root |-> active_root, iter_hash |-> iter_hash]
    ELSE IF iter_hash \notin DOMAIN active
    THEN [panic |-> TRUE, active_root |-> active_root, iter_hash |-> iter_hash]
    ELSE walk_up(active, active[iter_hash].block.header.prev_block_hash,
                 iter_hash, n - 1)

\* A faulty archiving loop, for comparison: it records each height one too
\* high.
RECURSIVE archive_ancestors_off_by_one(_, _, _)
archive_ancestors_off_by_one(active, archived, iter_hash) ==
    IF iter_hash \in DOMAIN active
    THEN archive_ancestors_off_by_one(
             MapRemove(active, iter_hash),
             MapInsert(archived, iter_hash, active[iter_hash].height + 1),
             active[iter_hash].block.header.prev_block_hash)
    ELSE [active |-> active, archived |-> archived]

\* archive_old_blocks, lines 117-126.
RECURSIVE archive_ancestors(_, _, _)
archive_ancestors(active, archived, iter_hash) ==
    IF iter_hash \in DOMAIN active
    THEN archive_ancestors(MapRemove(active, iter_hash),
                           MapInsert(archived, iter_hash, active[iter_hash].height),
                           active[iter_hash].block.header.prev_block_hash)
    ELSE [active |-> active, archived |-> archived]

\* A faulty walk, for comparison: it follows one parent link only.
get_active_root_one_link(active, hash) ==
    IF hash \in DOMAIN active
    THEN active[hash].block.header.prev_block_hash
    ELSE hash

RECURSIVE get_active_root(_, _)
get_active_root(active, hash) ==
    IF hash \in DOMAIN active
    THEN get_active_root(active, active[hash].block.header.prev_block_hash)
    ELSE hash

\* A faulty prune loop, for comparison: it retains every block, whatever
\* its root.
RECURSIVE prune_retains_all(_, _, _)
prune_retains_all(active, retained, hashes) ==
    IF hashes = <<>> THEN retained
    ELSE prune_retains_all(MapRemove(active, Head(hashes)),
                           MapInsert(retained, Head(hashes), active[Head(hashes)]),
                           Tail(hashes))

\* archive_old_blocks, lines 141-146: the hashes still to visit, in the
\* order the HashMap yields them.
RECURSIVE prune(_, _, _)
prune(active, retained, hashes) ==
    IF hashes = <<>> THEN retained
    ELSE LET hash == Head(hashes)
             root == get_active_root(active, hash)
         IN  IF root \in DOMAIN retained
             THEN prune(MapRemove(active, hash),
                        MapInsert(retained, hash, active[hash]),
                        Tail(hashes))
             ELSE prune(active, retained, Tail(hashes))

\* archive_old_blocks up to line 137: the walk, the archiving and the seed
\* of the retained map.
archive_seed(active, archived, leaf_hash) ==
    LET w == walk_up(active, leaf_hash, leaf_hash, MAX_ACTIVE_HEIGHT)
    IN  IF w.panic
        THEN [panic |-> TRUE, active |-> active, archived |-> archived,
              retained |-> EmptyMap]
        ELSE LET a == archive_ancestors(active, archived, w.iter_hash)
             IN  IF w.active_root \notin DOMAIN a.active
                 THEN [panic |-> TRUE, active |-> a.active,
                       archived |-> a.archived, retained |-> EmptyMap]
                 ELSE [panic |-> FALSE,
                       active |-> MapRemove(a.active, w.active_root),
                       archived |-> a.archived,
                       retained |-> MapInsert(EmptyMap, w.active_root,
                                              a.active[w.active_root])]

\* A faulty archive_old_blocks, for comparison: the dead branches are not
\* pruned away.
archive_old_blocks_no_prune(active, archived, leaf_hash, order) ==
    LET s == archive_seed(active, archived, leaf_hash)
    IN  IF s.panic
        THEN [panic |-> TRUE, active |-> s.active, archived |-> s.archived]
        ELSE [panic |-> FALSE,
              active |-> [h \in DOMAIN s.active \cup DOMAIN s.retained |->
                             IF h \in DOMAIN s.active THEN s.active[h]
                             ELSE s.retained[h]],
              archived |-> s.archived]

\* order lists the keys of the map left after the seed was taken out.
archive_old_blocks(active, archived, leaf_hash, order) ==
    LET s == archive_seed(active, archived, leaf_hash)
    IN  IF s.panic
        THEN [panic |-> TRUE, active |-> s.active, archived |-> s.archived]
        ELSE [panic |-> FALSE,
              active |-> prune(s.active, s.retained, order),
              archived |-> s.archived]

Outcome(kind, reason, block, active, archived) ==
    [kind |-> kind, reason |-> reason, block |-> block,
     active |-> active, archived |-> archived]

\* A faulty threshold, for comparison: archiving starts one block late.
insert_and_archive_late(active, archived, block, height, build, order) ==
    LET hash == id(block)
        inserted == MapInsert(active, hash, [block |-> block, height |-> height])
        len == Cardinality(DOMAIN archived)
    IN  IF height < len /\ build = "debug"
        THEN Outcome("Panic", "underflow", block, inserted, archived)
        ELSE IF height < len \/ height - len > MAX_ACTIVE_HEIGHT
        THEN LET r == archive_old_blocks(inserted, archived, hash, order)
             IN  IF r.panic
                 THEN Outcome("Panic", "unwrap", block, r.active, r.archived)
                 ELSE Outcome("Valid", "ok", block, r.active, r.archived)
        ELSE Outcome("Valid", "ok", block, inserted, archived)

\* Another faulty insert, for comparison: a block that is already active is
\* recorded one higher than it stands.
insert_and_archive_raises_known(active, archived, block, height, build, order) ==
    LET hash == id(block)
        recorded == IF hash \in DOMAIN active THEN height + 1 ELSE height
        inserted == MapInsert(active, hash, [block |-> block, height |-> recorded])
        len == Cardinality(DOMAIN archived)
    IN  IF recorded < len /\ build = "debug"
        THEN Outcome("Panic", "underflow", block, inserted, archived)
        ELSE IF recorded < len \/ recorded - len >= MAX_ACTIVE_HEIGHT
        THEN LET r == archive_old_blocks(inserted, archived, hash, order)
             IN  IF r.panic
                 THEN Outcome("Panic", "unwrap", block, r.active, r.archived)
                 ELSE Outcome("Valid", "ok", block, r.active, r.archived)
        ELSE Outcome("Valid", "ok", block, inserted, archived)

\* handle_block, lines 96-102: the insert and what follows it.
insert_and_archive(active, archived, block, height, build, order) ==
    LET hash == id(block)
        inserted == MapInsert(active, hash, [block |-> block, height |-> height])
        len == Cardinality(DOMAIN archived)
    IN  IF height < len /\ build = "debug"
        THEN Outcome("Panic", "underflow", block, inserted, archived)
        ELSE IF height < len \/ height - len >= MAX_ACTIVE_HEIGHT
        THEN LET r == archive_old_blocks(inserted, archived, hash, order)
             IN  IF r.panic
                 THEN Outcome("Panic", "unwrap", block, r.active, r.archived)
                 ELSE Outcome("Valid", "ok", block, r.active, r.archived)
        ELSE Outcome("Valid", "ok", block, inserted, archived)

\* Faulty variants of handle_block, for comparison.  The first inserts the
\* block before it validates it.
handle_block_insert_first(active, archived, block, clock, build, order) ==
    IF block.header.prev_block_hash \in DOMAIN archived
    THEN Outcome("Invalid", "archived", block, active, archived)
    ELSE LET is_genesis_block == block.header.prev_block_hash = ZeroHash
             known == block.header.prev_block_hash \in DOMAIN active
         IN  IF ~known /\ ~is_genesis_block
             THEN Outcome("Orphan", "orphan", block, active, archived)
             ELSE LET height == IF known
                                THEN active[block.header.prev_block_hash].height + 1
                                ELSE 0
                      e == validate_block(active, block, height, clock)
                      inserted == MapInsert(active, id(block),
                                            [block |-> block, height |-> height])
                  IN  IF e # "ok"
                      THEN Outcome("Invalid", e, block, inserted, archived)
                      ELSE insert_and_archive(active, archived, block, height,
                                              build, order)

\* The second does not look the parent up in the archived map.
handle_block_no_archived_check(active, archived, block, clock, build, order) ==
    LET is_genesis_block == block.header.prev_block_hash = ZeroHash
        known == block.header.prev_block_hash \in DOMAIN active
    IN  IF ~known /\ ~is_genesis_block
        THEN Outcome("Orphan", "orphan", block, active, archived)
        ELSE LET height == IF known
                           THEN active[block.header.prev_block_hash].height + 1
                           ELSE 0
                 e == validate_block(active, block, height, clock)
             IN  IF e # "ok"
                 THEN Outcome("Invalid", e, block, active, archived)
                 ELSE insert_and_archive(active, archived, block, height,
                                         build, order)

\* The third validates a block of unknown parent (at height 0) before it
\* gives it back as an orphan.
handle_block_validates_orphans(active, archived, block, clock, build, order) ==
    IF block.header.prev_block_hash \in DOMAIN archived
    THEN Outcome("Invalid", "archived", block, active, archived)
    ELSE LET is_genesis_block == block.header.prev_block_hash = ZeroHash
             known == block.header.prev_block_hash \in DOMAIN active
             height == IF known
                       THEN active[block.header.prev_block_hash].height + 1
                       ELSE 0
             e == validate_block(active, block, height, clock)
         IN  IF e # "ok"
             THEN Outcome("Invalid", e, block, active, archived)
             ELSE IF ~known /\ ~is_genesis_block
             THEN Outcome("Orphan", "orphan", block, active, archived)
             ELSE insert_and_archive(active, archived, block, height,
                                     build, order)

\* The fourth does not know genesis blocks: any block whose parent is not
\* active is given back as an orphan.
handle_block_no_genesis(active, archived, block, clock, build, order) ==
    IF block.header.prev_block_hash \in DOMAIN archived
    THEN Outcome("Invalid", "archived", block, active, archived)
    ELSE IF block.header.prev_block_hash \notin DOMAIN active
    THEN Outcome("Orphan", "orphan", block, active, archived)
    ELSE LET height == active[block.header.prev_block_hash].height + 1
             e == validate_block(active, block, height, clock)
         IN  IF e # "ok"
             THEN Outcome("Invalid", e, block, active, archived)
             ELSE insert_and_archive(active, archived, block, height,
                                     build, order)

\* The fifth records a child at the height of its parent.
handle_block_flat_height(active, archived, block, clock, build, order) ==
    IF block.header.prev_block_hash \in DOMAIN archived
    THEN Outcome("Invalid", "archived", block, active, archived)
    ELSE LET is_genesis_block == block.header.prev_block_hash = ZeroHash
             known == block.header.prev_block_hash \in DOMAIN active
         IN  IF ~known /\ ~is_genesis_block
             THEN Outcome("Orphan", "orphan", block, active, archived)
             ELSE LET height == IF known
                                THEN active[block.header.prev_block_hash].height
                                ELSE 0
                      e == validate_block(active, block, height, clock)
                  IN  IF e # "ok"
                      THEN Outcome("Invalid", e, block, active, archived)
                      ELSE insert_and_archive(active, archived, block, height,
                                              build, order)

handle_block(active, archived, block, clock, build, order) ==
    IF block.header.prev_block_hash \in DOMAIN archived
    THEN Outcome("Invalid", "archived", block, active, archived)
    ELSE LET is_genesis_block == block.header.prev_block_hash = ZeroHash
             known == block.header.prev_block_hash \in DOMAIN active
         IN  IF ~known /\ ~is_genesis_block
             THEN Outcome("Orphan", "orphan", block, active, archived)
             ELSE LET height == IF known
                                THEN active[block.header.prev_block_hash].height + 1
                                ELSE 0
                      e == validate_block(active, block, height, clock)
                  IN  IF e # "ok"
                      THEN Outcome("Invalid", e, block, active, archived)
                      ELSE insert_and_archive(active, archived, block, height,
                                              build, order)

\* The orders in which the prune loop may visit the remaining keys when
\* this call archives; {<<>>} when it does not.
PruneOrders(active, archived, block, clock) ==
    LET probe == handle_block(active, archived, block, clock, "release", <<>>)
        known == block.header.prev_block_hash \in DOMAIN active
        height == IF known THEN active[block.header.prev_block_hash].height + 1 ELSE 0
        inserted == MapInsert(active, id(block), [block |-> block, height |-> height])
        s == archive_seed(inserted, archived, id(block))
    IN  IF probe.kind = "Valid" /\ probe.archived # archived
        THEN Perms(DOMAIN s.active)
        ELSE {<<>>}

(***************************************************************************)
(* builder.rs: Orphanage.                                                  *)
(***************************************************************************)
RemoveAt(seq, k) == [j \in 1..(Len(seq) - 1) |-> IF j < k THEN seq[j] ELSE seq[j + 1]]

\* A faulty take_orphan, for comparison: at capacity it gives up the newest
\* block it holds, not the oldest.
take_orphan_evicts_newest(size, orphan_list, block) ==
    IF Len(orphan_list) >= size /\ Len(orphan_list) > 0
    THEN Append(SubSeq(orphan_list, 1, size - 1), block)
    ELSE Append(orphan_list, block)

\* take_orphan: evict from the front while at capacity, then push.
RECURSIVE take_orphan(_, _, _)
take_orphan(size, orphan_list, block) ==
    IF Len(orphan_list) >= size /\ Len(orphan_list) > 0
    THEN take_orphan(size, Tail(orphan_list), block)
    ELSE Append(orphan_list, block)

\* A faulty match, for comparison: the orphan's own id is compared with
\* the parent's.
RECURSIVE next_child_by_id(_, _, _)
next_child_by_id(orphan_list, parent_id, i) ==
    IF i > Len(orphan_list) THEN i
    ELSE IF id(orphan_list[i]) = parent_id THEN i
    ELSE next_child_by_id(orphan_list, parent_id, i + 1)

\* find_children: the loop position (1-based) of the next orphan at or
\* after i whose parent is parent_id; Len + 1 when the loop runs off the
\* end.
RECURSIVE next_child(_, _, _)
next_child(orphan_list, parent_id, i) ==
    IF i > Len(orphan_list) THEN i
    ELSE IF orphan_list[i].header.prev_block_hash = parent_id THEN i
    ELSE next_child(orphan_list, parent_id, i + 1)

(***************************************************************************)
(* The byte ranges fed to ingest.  A buffer is a sequence of chunks, each  *)
(* the bytes of one framed block (or of something that does not parse);    *)
(* the fingerprint of a chunk (the SHA-256 of its bytes) is its number.    *)
(*   n in PipeBlockIds   the serialization of BlockOf(n)                   *)
(*   101                 AltBlock1: the header of block 1, other bytes     *)
(*   201                 block 1 framed with the TestNet3 magic            *)
(*   202                 block 1 framed with an unrecognized magic         *)
(***************************************************************************)
PipeBlockIds == (1..(MAX_ACTIVE_HEIGHT + 1)) \cup {31, 41, 51}
ChunkIds == PipeBlockIds \cup {101, 201, 202}

\* What the caller feeds in the pipeline runs: the main chain up to the
\* archive horizon, in any order, and a block that stays an orphan.
PipeMenu == (1..(MAX_ACTIVE_HEIGHT + 1)) \cup {41}

\* 4 bytes of magic, 4 of size, 80 of header, 1 of count, the transactions.
FrameLen(block) == 89 + 10 * Len(block.transactions)

\* The first four bytes of chunk c, read as a little-endian u32.
MagicOf(c) ==
    IF c = 201 THEN "0709110b"
    ELSE IF c = 202 THEN "deadbeef"
    ELSE "d9b4bef9"

\* A faulty Network::deserialize_le, for comparison: an unrecognized magic
\* is taken for the main network.
Network_deserialize_le_lenient(magic) ==
    IF magic = "0709110b" THEN [ok |-> TRUE, network |-> "TestNet3"]
    ELSE IF magic = "dab5bffa" THEN [ok |-> TRUE, network |-> "RegTest"]
    ELSE [ok |-> TRUE, network |-> "MainNet"]

\* Network::deserialize_le
Network_deserialize_le(magic) ==
    IF magic = "d9b4bef9" THEN [ok |-> TRUE, network |-> "MainNet"]
    ELSE IF magic = "0709110b" THEN [ok |-> TRUE, network |-> "TestNet3"]
    ELSE IF magic = "dab5bffa" THEN [ok |-> TRUE, network |-> "RegTest"]
    ELSE [ok |-> FALSE, network |-> "MainNet"]

\* What Block::deserialize_le makes of chunk c, whose bytes frame `block`
\* (the chunks 101, 201 and 202 are variations of the frame of block 1).
deserialize_le(c, block) ==
    LET network == Network_deserialize_le(MagicOf(c))
    IN  IF ~network.ok
        THEN [ok |-> FALSE, len |-> FrameLen(block), block |-> block]
        ELSE IF c = 101
        THEN [ok |-> TRUE, len |-> FrameLen(block) + 1,
              block |-> [block EXCEPT !.transactions = <<Tx(1, 0), Tx(101, 8)>>]]
        ELSE [ok |-> TRUE, len |-> FrameLen(block),
              block |-> [block EXCEPT !.network = network.network]]

MakeChunk(c) == deserialize_le(c, BlockOf(IF c \in {101, 201, 202} THEN 1 ELSE c))

ChunkTable == [c \in ChunkIds |-> MakeChunk(c)]
ChunkOf(c) == ChunkTable[c]

RECURSIVE BytesLen(_)
BytesLen(buf) == IF buf = <<>> THEN 0 ELSE ChunkOf(Head(buf)).len + BytesLen(Tail(buf))

\* The chunk that starts at byte offset at.
RECURSIVE ChunkAt(_, _)
ChunkAt(buf, at) == IF at = 0 THEN Head(buf) ELSE ChunkAt(Tail(buf), at - ChunkOf(Head(buf)).len)

\* parse_blockfile: the blocks of buf, or an error at the first chunk that
\* does not parse.
RECURSIVE parse_blockfile(_)
parse_blockfile(buf) ==
    IF buf = <<>> THEN [ok |-> TRUE, blocks |-> <<>>]
    ELSE IF ~ChunkOf(Head(buf)).ok THEN [ok |-> FALSE, blocks |-> <<>>]
    ELSE LET rest == parse_blockfile(Tail(buf))
         IN  IF rest.ok
             THEN [ok |-> TRUE, blocks |-> <<ChunkOf(Head(buf)).block>> \o rest.blocks]
             ELSE rest

\* Total number of chunks the caller feeds (enough to cross the archive
\* horizon), and the longest buffer of one ingest call.
MaxFeed == MAX_ACTIVE_HEIGHT + 1
MaxBuf == 2

Buffers(menu) == UNION {[1..k -> menu] : k \in 1..MaxBuf}

(***************************************************************************)
(* parse.rs: the wire format, byte by byte.  A byte string is a sequence   *)
(* of numbers 0..255 and a cursor counts the bytes before it.  A read      *)
(* yields [ok, val, ix]: whether it succeeded, the value and the cursor    *)
(* behind it.  Numbers read are below 2^31 in every input used here.       *)
(***************************************************************************)
ParseErr(at) == [ok |-> FALSE, val |-> 0, ix |-> at]
ParseOk(v, at) == [ok |-> TRUE, val |-> v, ix |-> at]

RECURSIVE Flatten(_)
Flatten(ss) == IF ss = <<>> THEN <<>> ELSE Head(ss) \o Flatten(Tail(ss))

\* u8::deserialize_le
u8_deserialize_le(b, at) ==
    IF Len(b) < at + 1 THEN ParseErr(at) ELSE ParseOk(b[at + 1], at + 1)

\* The little-endian value of the n bytes behind at.
RECURSIVE le_value(_, _, _)
le_value(b, at, n) ==
    IF n = 0 THEN 0 ELSE b[at + 1] + 256 * le_value(b, at + 1, n - 1)

\* u16, u32, u64 ::deserialize_le (n = 2, 4, 8 bytes)
uint_deserialize_le(b, at, n) ==
    IF Len(b) < at + n THEN ParseErr(at) ELSE ParseOk(le_value(b, at, n), at + n)

\* u16, u32, u64 ::serialize_le
RECURSIVE uint_serialize_le(_, _)
uint_serialize_le(v, n) ==
    IF n = 0 THEN <<>> ELSE <<v % 256>> \o uint_serialize_le(v \div 256, n - 1)

\* usize::serialize_le: the compact size (the 0xff form is for values from
\* 2^32 on).
usize_serialize_le(v) ==
    IF v <= 252 THEN <<v>>
    ELSE IF v <= 65535 THEN <<253>> \o uint_serialize_le(v, 2)
    ELSE <<254>> \o uint_serialize_le(v, 4)

\* usize::deserialize_le
usize_deserialize_le(b, at) ==
    LET tag == u8_deserialize_le(b, at)
    IN  IF ~tag.ok THEN tag
        ELSE IF tag.val <= 252 THEN tag
        ELSE IF tag.val = 253 THEN uint_deserialize_le(b, tag.ix, 2)
        ELSE IF tag.val = 254 THEN uint_deserialize_le(b, tag.ix, 4)
        ELSE uint_deserialize_le(b, tag.ix, 8)

\* usize on its full 64-bit range: a value is the sequence of its 8 bytes,
\* lowest first (the numbers of the model end below 2^31).
Wide(low) == [i \in 1..8 |-> IF i <= Len(low) THEN low[i] ELSE 0]

\* a <= b on two such values: they are equal or differ first, from the
\* top, at a byte where a is below b.
WideLeq(a, b) ==
    \/ a = b
    \/ \E i \in 1..8 : a[i] < b[i] /\ \A j \in (i + 1)..8 : a[j] = b[j]

\* A faulty usize::serialize_le, for comparison: 0xfd is written in one
\* byte.
usize_serialize_le_wide_fd(v) ==
    IF WideLeq(v, Wide(<<253>>)) THEN <<v[1]>>
    ELSE IF WideLeq(v, Wide(<<255, 255>>)) THEN <<253>> \o SubSeq(v, 1, 2)
    ELSE IF WideLeq(v, Wide(<<255, 255, 255, 255>>)) THEN <<254>> \o SubSeq(v, 1, 4)
    ELSE <<255>> \o v

\* usize::serialize_le, all four branches; `as u16` and `as u32` keep the
\* low bytes.
usize_serialize_le_wide(v) ==
    IF WideLeq(v, Wide(<<252>>)) THEN <<v[1]>>
    ELSE IF WideLeq(v, Wide(<<255, 255>>)) THEN <<253>> \o SubSeq(v, 1, 2)
    ELSE IF WideLeq(v, Wide(<<255, 255, 255, 255>>)) THEN <<254>> \o SubSeq(v, 1, 4)
    ELSE <<255>> \o v

\* u16, u32, u64 ::deserialize_le followed by `as u64` (n = 2, 4, 8).
wide_deserialize_le(b, at, n) ==
    IF Len(b) < at + n THEN ParseErr(at)
    ELSE ParseOk(Wide(SubSeq(b, at + 1, at + n)), at + n)

\* usize::deserialize_le, all four arms (a 64-bit usize: the conversion at
\* the end cannot fail).
usize_deserialize_le_wide(b, at) ==
    LET tag == u8_deserialize_le(b, at)
    IN  IF ~tag.ok THEN tag
        ELSE IF tag.val <= 252 THEN ParseOk(Wide(<<tag.val>>), tag.ix)
        ELSE IF tag.val = 253 THEN wide_deserialize_le(b, tag.ix, 2)
        ELSE IF tag.val = 254 THEN wide_deserialize_le(b, tag.ix, 4)
        ELSE wide_deserialize_le(b, tag.ix, 8)

Reversed(s) == [i \in 1..Len(s) |-> s[Len(s) + 1 - i]]

\* Hash::serialize_le and deserialize_le: the 32 bytes in reverse order.
Hash_serialize_le(h) == Reversed(h)

Hash_deserialize_le(b, at) ==
    IF Len(b) < at + HASH_BYTES THEN ParseErr(at)
    ELSE ParseOk(Reversed(SubSeq(b, at + 1, at + HASH_BYTES)), at + HASH_BYTES)

read_bytes(b, at, count) ==
    IF Len(b) < at + count THEN ParseErr(at)
    ELSE ParseOk(SubSeq(b, at + 1, at + count), at + count)

read_bytearray(b, at) ==
    LET count == usize_deserialize_le(b, at)
    IN  IF ~count.ok THEN count ELSE read_bytes(b, count.ix, count.val)

\* A byte array as it is written: its length, then its bytes.
write_bytearray(s) == usize_serialize_le(Len(s)) \o s

\* TransactionFlags: WITNESS is bit 0 and from_bits knows no other bit.
WITNESS_FLAG == 1

TransactionFlags_deserialize_le(b, at) ==
    LET bits == u8_deserialize_le(b, at)
    IN  IF ~bits.ok THEN bits
        ELSE IF bits.val \in {0, WITNESS_FLAG} THEN bits
        ELSE ParseErr(at)

\* The ? operator on a parse result r: an error is returned as it is, a
\* value is handed on to what follows (r is evaluated once).
Try(r, rest(_)) ==
    CHOOSE out \in {IF ~v.ok THEN v ELSE rest(v) : v \in {r}} : TRUE

\* Transaction::deserialize_le, the loop over the inputs: n still to read.
RECURSIVE read_inputs(_, _, _, _)
read_inputs(b, at, n, inputs) ==
    IF n = 0 THEN ParseOk(inputs, at)
    ELSE Try(Hash_deserialize_le(b, at), LAMBDA txid :
         Try(uint_deserialize_le(b, txid.ix, 4), LAMBDA vout :
         Try(read_bytearray(b, vout.ix), LAMBDA unlock_script :
         Try(uint_deserialize_le(b, unlock_script.ix, 4), LAMBDA sequence :
         read_inputs(b, sequence.ix, n - 1,
                     Append(inputs, [txid |-> txid.val,
                                     vout |-> vout.val,
                                     unlock_script |-> unlock_script.val,
                                     sequence |-> sequence.val,
                                     witness_stuff |-> <<>>]))))))

\* The loop over the outputs.
RECURSIVE read_outputs(_, _, _, _)
read_outputs(b, at, n, outputs) ==
    IF n = 0 THEN ParseOk(outputs, at)
    ELSE Try(uint_deserialize_le(b, at, 8), LAMBDA value :
         Try(read_bytearray(b, value.ix), LAMBDA lock_script :
         read_outputs(b, lock_script.ix, n - 1,
                      Append(outputs, [value |-> value.val,
                                       lock_script |-> lock_script.val]))))

\* The witness stack of one input: n items still to read.
RECURSIVE read_witness_stuff(_, _, _, _)
read_witness_stuff(b, at, n, witness_stuff) ==
    IF n = 0 THEN ParseOk(witness_stuff, at)
    ELSE Try(read_bytearray(b, at), LAMBDA witness :
         read_witness_stuff(b, witness.ix, n - 1,
                            Append(witness_stuff, witness.val)))

\* The loop over the inputs that reads their witness stacks: input i next.
RECURSIVE read_witnesses(_, _, _, _)
read_witnesses(b, at, inputs, i) ==
    IF i > Len(inputs) THEN ParseOk(inputs, at)
    ELSE Try(usize_deserialize_le(b, at), LAMBDA outer_count :
         Try(read_witness_stuff(b, outer_count.ix, outer_count.val, <<>>),
             LAMBDA witness_stuff :
         read_witnesses(b, witness_stuff.ix,
                        [inputs EXCEPT ![i].witness_stuff = witness_stuff.val],
                        i + 1)))

\* Transaction::deserialize_le
Transaction_deserialize_le(b, at) ==
    Try(uint_deserialize_le(b, at, 4), LAMBDA version :
    Try(usize_deserialize_le(b, version.ix), LAMBDA count :
    Try(IF count.val = 0
        THEN TransactionFlags_deserialize_le(b, count.ix)
        ELSE ParseOk(0, count.ix), LAMBDA flags :
    Try(IF count.val = 0
        THEN usize_deserialize_le(b, flags.ix)
        ELSE count, LAMBDA input_count :
    Try(read_inputs(b, input_count.ix, input_count.val, <<>>), LAMBDA inputs :
    Try(usize_deserialize_le(b, inputs.ix), LAMBDA output_count :
    Try(read_outputs(b, output_count.ix, output_count.val, <<>>), LAMBDA outputs :
    Try(IF flags.val = WITNESS_FLAG
        THEN read_witnesses(b, outputs.ix, inputs.val, 1)
        ELSE ParseOk(inputs.val, outputs.ix), LAMBDA witnessed :
    Try(uint_deserialize_le(b, witnessed.ix, 4), LAMBDA locktime :
    ParseOk([version |-> version.val,
             flags |-> flags.val,
             inputs |-> witnessed.val,
             outputs |-> outputs.val,
             locktime |-> locktime.val], locktime.ix))))))))))

\* Transaction::serialize_le
Transaction_serialize_le(tx) ==
    uint_serialize_le(tx.version, 4)
    \o (IF tx.flags # 0 THEN <<0, tx.flags>> ELSE <<>>)
    \o usize_serialize_le(Len(tx.inputs))
    \o Flatten([i \in 1..Len(tx.inputs) |->
                   Hash_serialize_le(tx.inputs[i].txid)
                   \o uint_serialize_le(tx.inputs[i].vout, 4)
                   \o write_bytearray(tx.inputs[i].unlock_script)
                   \o uint_serialize_le(tx.inputs[i].sequence, 4)])
    \o usize_serialize_le(Len(tx.outputs))
    \o Flatten([i \in 1..Len(tx.outputs) |->
                   uint_serialize_le(tx.outputs[i].value, 8)
                   \o write_bytearray(tx.outputs[i].lock_script)])
    \o (IF tx.flags = WITNESS_FLAG
        THEN Flatten([i \in 1..Len(tx.inputs) |->
                 usize_serialize_le(Len(tx.inputs[i].witness_stuff))
                 \o Flatten([k \in 1..Len(tx.inputs[i].witness_stuff) |->
                                write_bytearray(tx.inputs[i].witness_stuff[k])])])
        ELSE <<>>)
    \o uint_serialize_le(tx.locktime, 4)

\* BlockHeader::deserialize_le
BlockHeader_deserialize_le(b, at) ==
    LET version == uint_deserialize_le(b, at, 4)
        prev_block_hash == Hash_deserialize_le(b, at + 4)
        merkle_root == Hash_deserialize_le(b, at + 4 + HASH_BYTES)
        time == uint_deserialize_le(b, at + 4 + 2 * HASH_BYTES, 4)
        bits == uint_deserialize_le(b, at + 8 + 2 * HASH_BYTES, 4)
        nonce == uint_deserialize_le(b, at + 12 + 2 * HASH_BYTES, 4)
    IN  IF ~nonce.ok THEN ParseErr(at)
        ELSE ParseOk([version |-> version.val,
                      prev_block_hash |-> prev_block_hash.val,
                      merkle_root |-> merkle_root.val,
                      time |-> time.val,
                      bits |-> bits.val,
                      nonce |-> nonce.val], nonce.ix)

\* BlockHeader::serialize_le
BlockHeader_serialize_le(header) ==
    uint_serialize_le(header.version, 4)
    \o Hash_serialize_le(header.prev_block_hash)
    \o Hash_serialize_le(header.merkle_root)
    \o uint_serialize_le(header.time, 4)
    \o uint_serialize_le(header.bits, 4)
    \o uint_serialize_le(header.nonce, 4)

\* Network::serialize_le
Network_serialize_le(net) ==
    IF net = "MainNet" THEN <<249, 190, 180, 217>>
    ELSE IF net = "TestNet3" THEN <<11, 17, 9, 7>>
    ELSE <<250, 191, 181, 218>>

\* The u32 the four bytes behind at make, in hexadecimal (a value that is
\* the magic of no network reads "other").
MagicAt(b, at) ==
    LET q == SubSeq(b, at + 1, at + 4)
    IN  IF q = <<249, 190, 180, 217>> THEN "d9b4bef9"
        ELSE IF q = <<11, 17, 9, 7>> THEN "0709110b"
        ELSE IF q = <<250, 191, 181, 218>> THEN "dab5bffa"
        ELSE "other"

\* Block::deserialize_le, the loop over the transactions: n still to read.
RECURSIVE read_transactions(_, _, _, _)
read_transactions(b, at, n, transactions) ==
    IF n = 0 THEN ParseOk(transactions, at)
    ELSE Try(Transaction_deserialize_le(b, at), LAMBDA tx :
         read_transactions(b, tx.ix, n - 1, Append(transactions, tx.val)))

\* A faulty Block::deserialize_le, for comparison: the cursor is not
\* compared with the framed end.
Block_deserialize_le_unframed(b, at) ==
    IF Len(b) < at + 4 THEN ParseErr(at)
    ELSE
    LET net == Network_deserialize_le(MagicAt(b, at))
    IN  IF ~net.ok THEN ParseErr(at)
        ELSE
    Try(uint_deserialize_le(b, at + 4, 4), LAMBDA size :
    Try(BlockHeader_deserialize_le(b, size.ix), LAMBDA header :
    Try(usize_deserialize_le(b, header.ix), LAMBDA transaction_count :
    Try(read_transactions(b, transaction_count.ix, transaction_count.val, <<>>),
        LAMBDA transactions :
    ParseOk([network |-> net.network,
             header |-> header.val,
             transactions |-> transactions.val], transactions.ix)))))

\* Block::deserialize_le
Block_deserialize_le(b, at) ==
    IF Len(b) < at + 4 THEN ParseErr(at)
    ELSE
    LET net == Network_deserialize_le(MagicAt(b, at))
    IN  IF ~net.ok THEN ParseErr(at)
        ELSE
    Try(uint_deserialize_le(b, at + 4, 4), LAMBDA size :
    Try(BlockHeader_deserialize_le(b, size.ix), LAMBDA header :
    Try(usize_deserialize_le(b, header.ix), LAMBDA transaction_count :
    Try(read_transactions(b, transaction_count.ix, transaction_count.val, <<>>),
        LAMBDA transactions :
    IF transactions.ix # size.ix + size.val THEN ParseErr(at)
    ELSE ParseOk([network |-> net.network,
                  header |-> header.val,
                  transactions |-> transactions.val], transactions.ix)))))

\* Block::serialize_le: the size is written once the rest is.
Block_serialize_le(block) ==
    LET body == BlockHeader_serialize_le(block.header)
                \o usize_serialize_le(Len(block.transactions))
                \o Flatten([i \in 1..Len(block.transactions) |->
                               Transaction_serialize_le(block.transactions[i])])
    IN  Network_serialize_le(block.network)
        \o uint_serialize_le(Len(body), 4)
        \o body

(***************************************************************************)
(* Byte strings given to the block codec: frames put together from a       *)
(* magic, a size, a header, a transaction count in one of its encodings,   *)
(* one or two transactions, and possibly bytes behind the frame.           *)
(***************************************************************************)
WireHash(n) == [i \in 1..HASH_BYTES |-> IF i = 1 THEN n ELSE 0]

WireHeader ==
    <<1, 0, 0, 0>> \o WireHash(7) \o WireHash(9) \o <<100, 0, 0, 0>>
    \o <<127, 0, 0, 3>> \o <<5, 0, 0, 0>>

WireInput == WireHash(4) \o <<0, 0, 0, 0>> \o <<1, 81>> \o <<255, 255, 255, 0>>
WireOutput == <<50, 0, 0, 0, 0, 0, 0, 0>> \o <<0>>
WireLocktime == <<0, 0, 0, 0>>

\* A transaction with one input and one output.
WirePlainTx ==
    <<1, 0, 0, 0>> \o <<1>> \o WireInput \o <<1>> \o WireOutput \o WireLocktime

\* Transactions on the wire: a plain one, one with a witness stack, one
\* with the marker and no flag set, one with a script length in the
\* three-byte form, one with an unknown flag, one cut short, and one with
\* no input.
WireTxs ==
    {WirePlainTx,
     <<1, 0, 0, 0>> \o <<0, 1>> \o <<1>> \o WireInput \o <<1>> \o WireOutput
        \o <<1, 2, 48, 49>> \o WireLocktime,
     <<1, 0, 0, 0>> \o <<0, 0>> \o <<1>> \o WireInput \o <<1>> \o WireOutput
        \o WireLocktime,
     <<1, 0, 0, 0>> \o <<1>> \o WireHash(4) \o <<0, 0, 0, 0>> \o <<253, 1, 0, 81>>
        \o <<255, 255, 255, 0>> \o <<1>> \o WireOutput \o WireLocktime,
     <<1, 0, 0, 0>> \o <<0, 2>> \o <<1>> \o WireInput \o <<1>> \o WireOutput
        \o WireLocktime,
     <<1, 0, 0, 0>> \o <<1>> \o WireInput \o <<1>> \o WireOutput,
     <<2, 0, 0, 0>> \o <<0, 1>> \o <<0>> \o <<1>> \o WireOutput \o WireLocktime}

WireTxLists == {<<t>> : t \in WireTxs} \cup {<<WirePlainTx, t>> : t \in WireTxs}

\* The encodings of a count n below 253: the one-byte form and the longer
\* forms, which usize::deserialize_le reads as the same number.
WireCounts(n) ==
    {<<n>>, <<253, n, 0>>, <<254, n, 0, 0, 0>>, <<255, n, 0, 0, 0, 0, 0, 0, 0>>}

WireMagics == {<<249, 190, 180, 217>>, <<11, 17, 9, 7>>, <<222, 173, 190, 239>>}

WireFrame(magic, slack, count, txs, tail) ==
    LET body == WireHeader \o count \o Flatten(txs)
    IN  magic \o uint_serialize_le(Len(body) + slack, 4) \o body \o tail

WireInputs ==
    {WireFrame(magic, slack, count, txs, tail) :
        magic \in WireMagics, slack \in {0, 1},
        count \in UNION {WireCounts(n) : n \in 1..2},
        txs \in WireTxLists, tail \in {<<>>, <<0>>}}

\* The codec called on its own: Block::deserialize_le on a byte string from
\* its start, then Block::serialize_le on the block it returned.
NoProbe == [fn |-> "none", arg |-> <<>>, step |-> "none", out |-> ParseErr(0),
            bytes |-> <<>>]

(***************************************************************************)
(* State.                                                                  *)
(***************************************************************************)
VARIABLES
    active_blocks,      \* BlockValidator: id -> [block, height]
    archived_blocks,    \* BlockValidator: id -> height
    vstate,             \* validator (thread): "running", "exited", "panicked"
    last,               \* the latest handle_block call: block and outcome
    pc,                 \* the caller's thread: "idle", "ingest", "send_o",
                        \* "join_v", "join_o", "done", "panicked"
    bytes,              \* ingest: the buffer
    ix,                 \* ingest: the cursor
    ingest_last,        \* what ingest did with the latest block it reached,
                        \* and the value it returned if it returned
    fed,                \* chunks handed to ingest so far
    network,            \* BlockChainBuilder.network
    deduplicator,       \* BlockChainBuilder.deduplicator
    validator_rx,       \* messages queued for the validator task
    orphanage_rx,       \* messages queued for the orphanage task
    orphans,            \* Orphanage.orphans
    ostate,             \* orphanage thread: "running", "exited", "panicked"
    scan,               \* find_children in progress: parent_id and i
    sent,               \* fingerprint -> NewBlock messages ingest sent for it
    probe               \* a function of the library called on its own:
                        \* which one, its argument and what it returned

vvars == <<active_blocks, archived_blocks, vstate, last>>
mvars == <<pc, bytes, ix, ingest_last, fed, network, deduplicator, sent>>
ovars == <<orphanage_rx, orphans, ostate, scan>>
vars == <<vvars, mvars, ovars, validator_rx, probe>>

NoCall == [block |-> BlockOf(1), kind |-> "None", reason |-> "none",
           returned |-> BlockOf(1), from |-> "none", dropped |-> {}]

\* The ids a call took out of the active map (the new block counted in)
\* without archiving them.
Dropped(active, block, r) ==
    IF r.kind = "Valid"
    THEN ((DOMAIN active \cup {id(block)}) \ DOMAIN r.active) \ DOMAIN r.archived
    ELSE {}
NoScan == [on |-> FALSE, parent_id |-> ZeroHash, i |-> 0]
NotReturned == 0 - 1
NoIngest == [chunk |-> 0, what |-> "none", ret |-> NotReturned]

NewBlock(block, from) == [type |-> "NewBlock", block |-> block, from |-> from]
ShutdownV == [type |-> "Shutdown", block |-> BlockOf(1), from |-> "caller"]
NewOrphan(block) == [type |-> "NewOrphan", block |-> block, hash |-> ZeroHash]
NewParent(hash) == [type |-> "NewParent", block |-> BlockOf(1), hash |-> hash]
ShutdownO == [type |-> "Shutdown", block |-> BlockOf(1), hash |-> ZeroHash]

\* The pipeline as BlockChainBuilder::new leaves it (the validator alone is
\* as BlockValidator::new leaves it).
Constructed ==
    /\ active_blocks = EmptyMap
    /\ archived_blocks = EmptyMap
    /\ vstate = "running"
    /\ last = NoCall
    /\ pc = "idle"
    /\ bytes = <<>>
    /\ ix = 0
    /\ ingest_last = NoIngest
    /\ fed = 0
    /\ network = "MainNet"
    /\ deduplicator = {}
    /\ validator_rx = <<>>
    /\ orphanage_rx = <<>>
    /\ orphans = <<>>
    /\ ostate = "running"
    /\ scan = NoScan
    /\ sent = [c \in ChunkIds |-> 0]

Init == Constructed /\ probe = NoProbe

(***************************************************************************)
(* The public BlockValidator API called directly.                          *)
(***************************************************************************)
HandleBlock ==
    /\ vstate = "running"
    /\ \E block \in Blocks, clock \in Clocks, build \in Builds :
         \E order \in PruneOrders(active_blocks, archived_blocks, block, clock) :
            LET r == handle_block(active_blocks, archived_blocks, block, clock,
                                  build, order)
            IN  /\ active_blocks' = r.active
                /\ archived_blocks' = r.archived
                /\ vstate' = IF r.kind = "Panic" THEN "panicked" ELSE vstate
                /\ last' = [block |-> block, kind |-> r.kind, reason |-> r.reason,
                            returned |-> r.block, from |-> "caller",
                            dropped |-> Dropped(active_blocks, block, r)]
    /\ UNCHANGED <<mvars, ovars, validator_rx>>
    /\ UNCHANGED probe

Spec == Init /\ [][HandleBlock]_vars

\* The validator after the blocks of the first period have been handled in
\* order: the last MAX_ACTIVE_HEIGHT of them are active, the others
\* archived.
LongChainInit ==
    /\ active_blocks =
          [h \in LongChainId(RETARGET_INTERVAL - MAX_ACTIVE_HEIGHT)
                    ..LongChainId(RETARGET_INTERVAL - 1)
              |-> [block |-> MakeLongBlock(h), height |-> LongHeight(h)]]
    /\ archived_blocks =
          [h \in LongChainId(0)..LongChainId(RETARGET_INTERVAL - MAX_ACTIVE_HEIGHT - 1)
              |-> LongHeight(h)]
    /\ vstate = "running"
    /\ last = NoCall
    /\ pc = "idle"
    /\ bytes = <<>>
    /\ ix = 0
    /\ ingest_last = NoIngest
    /\ fed = 0
    /\ network = "MainNet"
    /\ deduplicator = {}
    /\ validator_rx = <<>>
    /\ orphanage_rx = <<>>
    /\ orphans = <<>>
    /\ ostate = "running"
    /\ scan = NoScan
    /\ sent = [c \in ChunkIds |-> 0]
    /\ probe = NoProbe

HandleLongBlock ==
    /\ vstate = "running"
    /\ \E block \in LongBlocks, clock \in Clocks, build \in Builds :
         \E order \in PruneOrders(active_blocks, archived_blocks, block, clock) :
            LET r == handle_block(active_blocks, archived_blocks, block, clock,
                                  build, order)
            IN  /\ active_blocks' = r.active
                /\ archived_blocks' = r.archived
                /\ vstate' = IF r.kind = "Panic" THEN "panicked" ELSE vstate
                /\ last' = [block |-> block, kind |-> r.kind, reason |-> r.reason,
                            returned |-> r.block, from |-> "caller",
                            dropped |-> Dropped(active_blocks, block, r)]
    /\ UNCHANGED <<mvars, ovars, validator_rx>>
    /\ UNCHANGED probe

LongChain == LongChainInit /\ [][HandleLongBlock]_vars

(***************************************************************************)
(* builder.rs: the caller's thread.                                        *)
(***************************************************************************)
\* A send succeeds exactly while the receiving thread holds its receiver.
ValidatorReceives == vstate = "running"
OrphanageReceives == ostate = "running"

\* ingest is called with a buffer of chunks of the menu.
Ingest(menu) ==
    /\ pc = "idle"
    /\ \E buf \in Buffers(menu) :
          /\ fed + Len(buf) <= MaxFeed
          /\ bytes' = buf
          /\ fed' = fed + Len(buf)
    /\ ix' = 0
    /\ pc' = "ingest"
    /\ UNCHANGED <<vvars, ovars, validator_rx, ingest_last, network,
                   deduplicator, sent>>
    /\ UNCHANGED probe

\* The byte ranges of the runs that look at what ingest returns: the main
\* chain in order up to the archive horizon, a second genesis block (which
\* stops the validator thread once blocks are archived) ahead of an orphan,
\* a block of another network ahead of and behind a block of this one, and
\* a frame that does not parse between two that do.
ChainBuf == [i \in 1..(MAX_ACTIVE_HEIGHT + 1) |-> i]
IngestBuffers == {ChainBuf, <<31, 41>>, <<201, 41>>, <<1, 201>>, <<41, 202, 1>>}

\* Total number of chunks fed in those runs: the chain and two calls more.
IngestFeed == MAX_ACTIVE_HEIGHT + 5

\* ingest is called with one of these byte ranges.
IngestBytes ==
    /\ pc = "idle"
    /\ \E buf \in IngestBuffers :
          /\ fed + Len(buf) <= IngestFeed
          /\ bytes' = buf
          /\ fed' = fed + Len(buf)
    /\ ix' = 0
    /\ pc' = "ingest"
    /\ UNCHANGED <<vvars, ovars, validator_rx, ingest_last, network,
                   deduplicator, sent>>
    /\ UNCHANGED probe

\* Faulty turns of the loop, for comparison: a parse error returns the
\* cursor the failed read left behind; the fingerprint stays in the
\* deduplicator after a failed send; the fingerprint is inserted before the
\* network is looked at.
ingest_turn_returns_cursor(buf, cursor, net, dedup, receiving) ==
    LET last_good_ix == cursor
        c == ChunkAt(buf, cursor)
        chunk == ChunkOf(c)
        after == cursor + chunk.len
        more == after < BytesLen(buf)
        go_on(what, d, msgs) ==
            [what |-> what, returns |-> ~more, ret |-> after, ix |-> after,
             dedup |-> d, send |-> msgs, chunk |-> c]
    IN  IF ~chunk.ok
        THEN [what |-> "parse_error", returns |-> TRUE, ret |-> after,
              ix |-> cursor, dedup |-> dedup, send |-> <<>>, chunk |-> c]
        ELSE IF chunk.block.network # net
        THEN go_on("wrong_network", dedup, <<>>)
        ELSE IF c \in dedup
        THEN go_on("duplicate", dedup, <<>>)
        ELSE IF receiving
        THEN go_on("sent", dedup \cup {c}, <<NewBlock(chunk.block, "ingest")>>)
        ELSE [what |-> "send_failed", returns |-> TRUE, ret |-> last_good_ix,
              ix |-> after, dedup |-> (dedup \cup {c}) \ {c}, send |-> <<>>,
              chunk |-> c]

ingest_turn_keeps_fingerprint(buf, cursor, net, dedup, receiving) ==
    LET last_good_ix == cursor
        c == ChunkAt(buf, cursor)
        chunk == ChunkOf(c)
        after == cursor + chunk.len
        more == after < BytesLen(buf)
        go_on(what, d, msgs) ==
            [what |-> what, returns |-> ~more, ret |-> after, ix |-> after,
             dedup |-> d, send |-> msgs, chunk |-> c]
    IN  IF ~chunk.ok
        THEN [what |-> "parse_error", returns |-> TRUE, ret |-> last_good_ix,
              ix |-> cursor, dedup |-> dedup, send |-> <<>>, chunk |-> c]
        ELSE IF chunk.block.network # net
        THEN go_on("wrong_network", dedup, <<>>)
        ELSE IF c \in dedup
        THEN go_on("duplicate", dedup, <<>>)
        ELSE IF receiving
        THEN go_on("sent", dedup \cup {c}, <<NewBlock(chunk.block, "ingest")>>)
        ELSE [what |-> "send_failed", returns |-> TRUE, ret |-> last_good_ix,
              ix |-> after, dedup |-> dedup \cup {c}, send |-> <<>>,
              chunk |-> c]

ingest_turn_fingerprints_first(buf, cursor, net, dedup, receiving) ==
    LET last_good_ix == cursor
        c == ChunkAt(buf, cursor)
        chunk == ChunkOf(c)
        after == cursor + chunk.len
        more == after < BytesLen(buf)
        go_on(what, d, msgs) ==
            [what |-> what, returns |-> ~more, ret |-> after, ix |-> after,
             dedup |-> d, send |-> msgs, chunk |-> c]
    IN  IF ~chunk.ok
        THEN [what |-> "parse_error", returns |-> TRUE, ret |-> last_good_ix,
              ix |-> cursor, dedup |-> dedup, send |-> <<>>, chunk |-> c]
        ELSE IF c \in dedup
        THEN go_on("duplicate", dedup, <<>>)
        ELSE IF chunk.block.network # net
        THEN go_on("wrong_network", dedup \cup {c}, <<>>)
        ELSE IF receiving
        THEN go_on("sent", dedup \cup {c}, <<NewBlock(chunk.block, "ingest")>>)
        ELSE [what |-> "send_failed", returns |-> TRUE, ret |-> last_good_ix,
              ix |-> after, dedup |-> (dedup \cup {c}) \ {c}, send |-> <<>>,
              chunk |-> c]

\* A faulty turn of the loop, for comparison: the deduplicator is filled
\* but never consulted.
ingest_turn_no_dedup(buf, cursor, net, dedup, receiving) ==
    LET last_good_ix == cursor
        c == ChunkAt(buf, cursor)
        chunk == ChunkOf(c)
        after == cursor + chunk.len
        more == after < BytesLen(buf)
        go_on(what, d, msgs) ==
            [what |-> what, returns |-> ~more, ret |-> after, ix |-> after,
             dedup |-> d, send |-> msgs, chunk |-> c]
    IN  IF ~chunk.ok
        THEN [what |-> "parse_error", returns |-> TRUE, ret |-> last_good_ix,
              ix |-> cursor, dedup |-> dedup, send |-> <<>>, chunk |-> c]
        ELSE IF chunk.block.network # net
        THEN go_on("wrong_network", dedup, <<>>)
        ELSE IF receiving
        THEN go_on("sent", dedup \cup {c}, <<NewBlock(chunk.block, "ingest")>>)
        ELSE [what |-> "send_failed", returns |-> TRUE, ret |-> last_good_ix,
              ix |-> after, dedup |-> (dedup \cup {c}) \ {c}, send |-> <<>>,
              chunk |-> c]

\* What one turn of the while loop of ingest does with the block at ix:
\* the new cursor, whether ingest returns and what, the deduplicator, and
\* the message sent if any.
ingest_turn(buf, cursor, net, dedup, receiving) ==
    LET last_good_ix == cursor
        c == ChunkAt(buf, cursor)
        chunk == ChunkOf(c)
        after == cursor + chunk.len
        more == after < BytesLen(buf)
        go_on(what, d, msgs) ==
            [what |-> what, returns |-> ~more, ret |-> after, ix |-> after,
             dedup |-> d, send |-> msgs, chunk |-> c]
    IN  IF ~chunk.ok
        THEN [what |-> "parse_error", returns |-> TRUE, ret |-> last_good_ix,
              ix |-> cursor, dedup |-> dedup, send |-> <<>>, chunk |-> c]
        ELSE IF chunk.block.network # net
        THEN go_on("wrong_network", dedup, <<>>)
        ELSE IF c \in dedup
        THEN go_on("duplicate", dedup, <<>>)
        ELSE IF receiving
        THEN go_on("sent", dedup \cup {c}, <<NewBlock(chunk.block, "ingest")>>)
        ELSE [what |-> "send_failed", returns |-> TRUE, ret |-> last_good_ix,
              ix |-> after, dedup |-> (dedup \cup {c}) \ {c}, send |-> <<>>,
              chunk |-> c]

IngestBlock ==
    /\ pc = "ingest"
    /\ LET t == ingest_turn(bytes, ix, network, deduplicator, ValidatorReceives)
       IN  /\ ix' = IF t.returns THEN 0 ELSE t.ix
           /\ bytes' = IF t.returns THEN <<>> ELSE bytes
           /\ deduplicator' = t.dedup
           /\ validator_rx' = validator_rx \o t.send
           /\ sent' = IF t.send # <<>>
                      THEN [sent EXCEPT ![t.chunk] = sent[t.chunk] + 1]
                      ELSE sent
           /\ ingest_last' = [chunk |-> t.chunk, what |-> t.what,
                              ret |-> IF t.returns THEN t.ret ELSE NotReturned]
           /\ pc' = IF t.returns THEN "idle" ELSE "ingest"
    /\ UNCHANGED <<vvars, ovars, fed, network>>
    /\ UNCHANGED probe

\* shutdown, line 129.
ShutdownSendValidator ==
    /\ pc = "idle"
    /\ IF ValidatorReceives
       THEN /\ validator_rx' = Append(validator_rx, ShutdownV)
            /\ pc' = "send_o"
       ELSE /\ pc' = "panicked"
            /\ UNCHANGED validator_rx
    /\ UNCHANGED <<vvars, ovars, bytes, ix, ingest_last, fed, network,
                   deduplicator, sent>>
    /\ UNCHANGED probe

\* shutdown, line 130.
ShutdownSendOrphanage ==
    /\ pc = "send_o"
    /\ IF OrphanageReceives
       THEN /\ orphanage_rx' = Append(orphanage_rx, ShutdownO)
            /\ pc' = "join_v"
       ELSE /\ pc' = "panicked"
            /\ UNCHANGED orphanage_rx
    /\ UNCHANGED <<vvars, orphans, ostate, scan, validator_rx, bytes, ix,
                   ingest_last, fed, network, deduplicator, sent>>
    /\ UNCHANGED probe

\* shutdown, line 131: join returns once the thread has ended, with Err
\* when it panicked.
JoinValidator ==
    /\ pc = "join_v"
    /\ vstate # "running"
    /\ pc' = IF vstate = "exited" THEN "join_o" ELSE "panicked"
    /\ UNCHANGED <<vvars, ovars, validator_rx, bytes, ix, ingest_last, fed,
                   network, deduplicator, sent>>
    /\ UNCHANGED probe

\* shutdown, line 132.
JoinOrphanage ==
    /\ pc = "join_o"
    /\ ostate # "running"
    /\ pc' = IF ostate = "exited" THEN "done" ELSE "panicked"
    /\ UNCHANGED <<vvars, ovars, validator_rx, bytes, ix, ingest_last, fed,
                   network, deduplicator, sent>>
    /\ UNCHANGED probe

(***************************************************************************)
(* builder.rs: the validator task (spawn_validator).                       *)
(***************************************************************************)
\* One turn of the receive loop.  A thread that ends drops its receiver and
\* the messages still queued.
ValidatorTask(clocks) ==
    /\ vstate = "running"
    /\ validator_rx # <<>>
    /\ LET msg == Head(validator_rx)
       IN  IF msg.type = "Shutdown"
           THEN /\ vstate' = "exited"
                /\ validator_rx' = <<>>
                /\ UNCHANGED <<active_blocks, archived_blocks, last, orphanage_rx>>
           ELSE \E clock \in clocks, build \in Builds :
                \E order \in PruneOrders(active_blocks, archived_blocks,
                                         msg.block, clock) :
                \E r \in {handle_block(active_blocks, archived_blocks, msg.block,
                                        clock, build, order)} :
                LET out == IF r.kind = "Valid" THEN <<NewParent(id(msg.block))>>
                           ELSE IF r.kind = "Orphan" THEN <<NewOrphan(r.block)>>
                           ELSE <<>>
                    dies == r.kind = "Panic" \/ (out # <<>> /\ ~OrphanageReceives)
                IN  /\ active_blocks' = r.active
                    /\ archived_blocks' = r.archived
                    /\ last' = [block |-> msg.block, kind |-> r.kind,
                                reason |-> r.reason, returned |-> r.block,
                                from |-> msg.from,
                                dropped |-> Dropped(active_blocks, msg.block, r)]
                    /\ vstate' = IF dies THEN "panicked" ELSE "running"
                    /\ validator_rx' = IF dies THEN <<>> ELSE Tail(validator_rx)
                    /\ orphanage_rx' = IF dies THEN orphanage_rx
                                       ELSE orphanage_rx \o out
    /\ UNCHANGED <<mvars, orphans, ostate, scan>>
    /\ UNCHANGED probe

(***************************************************************************)
(* builder.rs: the orphanage task (spawn_orphanage).                       *)
(***************************************************************************)
\* A faulty find_children, for comparison: the orphan whose send failed is
\* removed from the queue all the same.
find_children_discards_unsent(orphan_list, parent_id, i, receiving) ==
    LET k == next_child(orphan_list, parent_id, i)
    IN  IF k > Len(orphan_list)
        THEN [orphans |-> orphan_list, send |-> <<>>, scan |-> NoScan]
        ELSE IF ~receiving
        THEN [orphans |-> RemoveAt(orphan_list, k), send |-> <<>>, scan |-> NoScan]
        ELSE LET rest == RemoveAt(orphan_list, k)
             IN  [orphans |-> rest,
                  send |-> <<NewBlock(orphan_list[k], "orphanage")>>,
                  scan |-> IF next_child(rest, parent_id, k) > Len(rest)
                           THEN NoScan
                           ELSE [on |-> TRUE, parent_id |-> parent_id, i |-> k]]

\* Another faulty find_children, for comparison: the orphan that was sent
\* stays in the queue.
find_children_keeps_sent(orphan_list, parent_id, i, receiving) ==
    LET k == next_child(orphan_list, parent_id, i)
    IN  IF k > Len(orphan_list)
        THEN [orphans |-> orphan_list, send |-> <<>>, scan |-> NoScan]
        ELSE IF ~receiving
        THEN [orphans |-> orphan_list, send |-> <<>>, scan |-> NoScan]
        ELSE [orphans |-> orphan_list,
              send |-> <<NewBlock(orphan_list[k], "orphanage")>>,
              scan |-> IF next_child(orphan_list, parent_id, k + 1) > Len(orphan_list)
                       THEN NoScan
                       ELSE [on |-> TRUE, parent_id |-> parent_id, i |-> k + 1]]

\* find_children from loop position i on: up to and including the next
\* send.  A send that fails breaks the loop; the scan is over when no
\* further child is left.
find_children(orphan_list, parent_id, i, receiving) ==
    LET k == next_child(orphan_list, parent_id, i)
    IN  IF k > Len(orphan_list)
        THEN [orphans |-> orphan_list, send |-> <<>>, scan |-> NoScan]
        ELSE IF ~receiving
        THEN [orphans |-> orphan_list, send |-> <<>>, scan |-> NoScan]
        ELSE LET rest == RemoveAt(orphan_list, k)
             IN  [orphans |-> rest,
                  send |-> <<NewBlock(orphan_list[k], "orphanage")>>,
                  scan |-> IF next_child(rest, parent_id, k) > Len(rest)
                           THEN NoScan
                           ELSE [on |-> TRUE, parent_id |-> parent_id, i |-> k]]

\* The senders of the orphanage channel: the builder's and the validator
\* task's.
OrphanageSenders == pc \notin {"done", "panicked"} \/ vstate = "running"

OrphanageTask ==
    /\ ostate = "running"
    /\ IF scan.on
       THEN LET f == find_children(orphans, scan.parent_id, scan.i, ValidatorReceives)
            IN  /\ orphans' = f.orphans
                /\ scan' = f.scan
                /\ validator_rx' = validator_rx \o f.send
                /\ UNCHANGED <<orphanage_rx, ostate>>
       ELSE IF orphanage_rx # <<>>
       THEN LET msg == Head(orphanage_rx)
            IN  IF msg.type = "Shutdown"
                THEN /\ ostate' = "exited"
                     /\ orphanage_rx' = <<>>
                     /\ UNCHANGED <<orphans, scan, validator_rx>>
                ELSE IF msg.type = "NewOrphan"
                THEN /\ orphans' = take_orphan(ARBITRARY_ORPHANAGE_SIZE, orphans,
                                               msg.block)
                     /\ orphanage_rx' = Tail(orphanage_rx)
                     /\ UNCHANGED <<ostate, scan, validator_rx>>
                ELSE LET f == find_children(orphans, msg.hash, 1, ValidatorReceives)
                     IN  /\ orphans' = f.orphans
                         /\ scan' = f.scan
                         /\ validator_rx' = validator_rx \o f.send
                         /\ orphanage_rx' = Tail(orphanage_rx)
                         /\ UNCHANGED ostate
       ELSE \* recv() on an empty channel: it blocks while a sender lives
            \* and fails, so that unwrap panics, once all are dropped
            /\ ~OrphanageSenders
            /\ ostate' = "panicked"
            /\ UNCHANGED <<orphanage_rx, orphans, scan, validator_rx>>
    /\ UNCHANGED <<vvars, mvars>>
    /\ UNCHANGED probe

PipelineNext ==
    \/ Ingest(PipeMenu)
    \/ IngestBlock
    \/ ShutdownSendValidator
    \/ ShutdownSendOrphanage
    \/ JoinValidator
    \/ JoinOrphanage
    \/ ValidatorTask(Clocks)
    \/ OrphanageTask

Pipeline == Init /\ [][PipelineNext]_vars

\* The pipeline fed and never shut down, with a wall clock that can be
\* read; the operating system schedules both worker threads again and
\* again.
LiveNext ==
    \/ Ingest(PipeMenu)
    \/ IngestBlock
    \/ ValidatorTask({NowSecs})
    \/ OrphanageTask

PipelineLive ==
    /\ Init
    /\ [][LiveNext]_vars
    /\ WF_vars(ValidatorTask({NowSecs}))
    /\ WF_vars(OrphanageTask)

\* The pipeline fed with the byte ranges above and never shut down.
IngestionNext ==
    \/ IngestBytes
    \/ IngestBlock
    \/ ValidatorTask({NowSecs})
    \/ OrphanageTask

Ingestion == Init /\ [][IngestionNext]_vars

\* The pipeline fed with a block, two children of it and a block that stays
\* an orphan, in any order, and shut down at any moment.
AdoptionMenu == {1, 2, 41, 51}

AdoptionNext ==
    \/ Ingest(AdoptionMenu)
    \/ IngestBlock
    \/ ShutdownSendValidator
    \/ ShutdownSendOrphanage
    \/ JoinValidator
    \/ JoinOrphanage
    \/ ValidatorTask({NowSecs})
    \/ OrphanageTask

Adoption == Init /\ [][AdoptionNext]_vars

\* The pipeline fed with a genesis block, the same block relayed with
\* other witness bytes (another byte range, the same header), a child of it
\* and a block that stays an orphan, in any order, and never shut down.
RelayMenu == {1, 2, 41, 101}

RelayNext ==
    \/ Ingest(RelayMenu)
    \/ IngestBlock
    \/ ValidatorTask({NowSecs})
    \/ OrphanageTask

Relay == Init /\ [][RelayNext]_vars

(***************************************************************************)
(* The block codec called on its own.                                      *)
(***************************************************************************)
CodecInit ==
    /\ Constructed
    /\ probe \in {[fn |-> "codec", arg |-> b, step |-> "input",
                    out |-> ParseErr(0), bytes |-> <<>>] : b \in WireInputs}

DeserializeBlock ==
    /\ probe.fn = "codec"
    /\ probe.step = "input"
    /\ probe' = [probe EXCEPT !.step = "parsed",
                              !.out = Block_deserialize_le(probe.arg, 0)]
    /\ UNCHANGED <<vvars, mvars, ovars, validator_rx>>

SerializeBlock ==
    /\ probe.fn = "codec"
    /\ probe.step = "parsed"
    /\ probe.out.ok
    /\ probe' = [probe EXCEPT !.step = "written",
                              !.bytes = Block_serialize_le(probe.out.val)]
    /\ UNCHANGED <<vvars, mvars, ovars, validator_rx>>

CodecNext ==
    \/ DeserializeBlock
    \/ SerializeBlock

Codec == CodecInit /\ [][CodecNext]_vars

(***************************************************************************)
(* Hash::from_bits called on its own, on bits values made of an exponent   *)
(* (the values around both ends of the array, and the largest one below    *)
(* 2^31) and a coefficient (those of the unit test among them).            *)
(***************************************************************************)
BitsExponents == (0..36) \cup {127}
BitsCoefficients ==
    {0, 1, 239, 256, 495, 52719, 65535, 65536, 118255, 238348, 8388607,
     11259375, 16777215}
BitsInputs == {e * 16777216 + c : e \in BitsExponents, c \in BitsCoefficients}

TargetsInit ==
    /\ Constructed
    /\ probe \in {[fn |-> "from_bits", arg |-> bits, step |-> "input",
                    out |-> [some |-> FALSE, hash |-> zero], bytes |-> <<>>] :
                        bits \in BitsInputs}

FromBits ==
    /\ probe.fn = "from_bits"
    /\ probe.step = "input"
    /\ probe' = [probe EXCEPT !.step = "done", !.out = from_bits(probe.arg)]
    /\ UNCHANGED <<vvars, mvars, ovars, validator_rx>>

Targets == TargetsInit /\ [][FromBits]_vars

(***************************************************************************)
(* Block::computed_merkle_root called on its own, on transaction lists of  *)
(* every length up to MaxTxs; the transactions up to the fourth come with   *)
(* and without witness data.                                               *)
(***************************************************************************)
MaxTxs == 7
MerkleInputs ==
    UNION {{[k \in 1..n |-> Tx(k, IF k \in ws THEN 7 ELSE 0)] :
                ws \in SUBSET (1..(IF n < 4 THEN n ELSE 4))} : n \in 0..MaxTxs}

MerkleInit ==
    /\ Constructed
    /\ probe \in {[fn |-> "computed_merkle_root", arg |-> txs, step |-> "input",
                    out |-> ZeroDigest, bytes |-> <<>>] : txs \in MerkleInputs}

ComputeMerkleRoot ==
    /\ probe.fn = "computed_merkle_root"
    /\ probe.step = "input"
    /\ probe' = [probe EXCEPT !.step = "done",
                              !.out = computed_merkle_root(probe.arg)]
    /\ UNCHANGED <<vvars, mvars, ovars, validator_rx>>

\* A second block is made of the same transactions and the last of them
\* once more, and its root computed (kept in probe.bytes).
ComputeMerkleRootRepeated ==
    /\ probe.fn = "computed_merkle_root"
    /\ probe.step = "done"
    /\ probe.arg # <<>>
    /\ probe' = [probe EXCEPT
                    !.step = "repeated",
                    !.bytes = computed_merkle_root(
                                  Append(probe.arg, probe.arg[Len(probe.arg)]))]
    /\ UNCHANGED <<vvars, mvars, ovars, validator_rx>>

\* strip_witness_data is applied to every transaction of the list, and the
\* root is computed of the block that has the same transactions without
\* WITNESS flag and witness stacks (both kept in probe.bytes).
StripWitnessData ==
    /\ probe.fn = "computed_merkle_root"
    /\ probe.step = "done"
    /\ probe' = [probe EXCEPT
                    !.step = "stripped",
                    !.bytes =
                       [stripped |-> [k \in 1..Len(probe.arg) |->
                                         strip_witness_data(probe.arg[k])],
                        plain_root |-> computed_merkle_root(
                                          [k \in 1..Len(probe.arg) |->
                                              Tx(probe.arg[k].core, 0)])]]
    /\ UNCHANGED <<vvars, mvars, ovars, validator_rx>>

MerkleNext ==
    \/ ComputeMerkleRoot
    \/ ComputeMerkleRootRepeated
    \/ StripWitnessData

Merkle == MerkleInit /\ [][MerkleNext]_vars

(***************************************************************************)
(* The compact size codec called on its own: a value is written behind a   *)
(* prefix, bytes are put behind it, and it is read back from the end of    *)
(* the prefix.  The values stand at both sides of every form's limit.      *)
(***************************************************************************)
SizeValues ==
    {Wide(low) : low \in {<<0>>, <<1>>, <<252>>, <<253>>, <<254>>, <<255>>,
                          <<0, 1>>, <<253, 0>>, <<255, 255>>, <<0, 0, 1>>,
                          <<255, 255, 255>>, <<0, 0, 0, 1>>,
                          <<255, 255, 255, 255>>, <<0, 0, 0, 0, 1>>,
                          <<253, 0, 0, 0, 0, 0, 0, 128>>,
                          <<255, 255, 255, 255, 255, 255, 255, 255>>}}
SizePrefixes == {<<>>, <<7>>, <<253, 255>>}
SizeSuffixes == {<<>>, <<9>>}

CompactSizeInit ==
    /\ Constructed
    /\ probe \in {[fn |-> "usize", arg |-> [value |-> v, dest |-> d, rest |-> r],
                    step |-> "input", out |-> ParseErr(0), bytes |-> <<>>] :
                        v \in SizeValues, d \in SizePrefixes, r \in SizeSuffixes}

SerializeUsize ==
    /\ probe.fn = "usize"
    /\ probe.step = "input"
    /\ probe' = [probe EXCEPT
                    !.step = "written",
                    !.bytes = probe.arg.dest \o usize_serialize_le_wide(probe.arg.value)]
    /\ UNCHANGED <<vvars, mvars, ovars, validator_rx>>

DeserializeUsize ==
    /\ probe.fn = "usize"
    /\ probe.step = "written"
    /\ probe' = [probe EXCEPT
                    !.step = "read",
                    !.out = usize_deserialize_le_wide(probe.bytes \o probe.arg.rest,
                                                      Len(probe.arg.dest))]
    /\ UNCHANGED <<vvars, mvars, ovars, validator_rx>>

CompactSizeNext ==
    \/ SerializeUsize
    \/ DeserializeUsize

CompactSize == CompactSizeInit /\ [][CompactSizeNext]_vars

(***************************************************************************)
(* script.rs: opcodes, parse_script, Script::validate, Executor and        *)
(* verify.  An opcode is [op, v, data]: its variant, the number or byte    *)
(* the variant carries (0 when it carries none) and the bytes of a         *)
(* PushArray.  A stack entry is [t, v, data] in the same way.              *)
(***************************************************************************)
Op(name, v, data) == [op |-> name, v |-> v, data |-> data]

\* The variant of an opcode byte outside the push range 0x00..=0x4e.
OpcodeName(v) ==
    CASE v = 80 \/ v = 98 \/ v \in 137..138 -> "Reserved"
      [] v = 97 \/ v = 176 \/ v \in 179..185 -> "Nop"
      [] v \in 101..102 \/ v \in 126..129 \/ v \in 131..134
            \/ v \in 141..142 \/ v \in 149..153 -> "Disabled"
      [] v = 99 -> "If"
      [] v = 100 -> "NotIf"
      [] v = 103 -> "Else"
      [] v = 104 -> "EndIf"
      [] v = 105 -> "Verify"
      [] v = 106 -> "Return"
      [] v = 107 -> "ToAltStack"
      [] v = 108 -> "FromAltStack"
      [] v = 109 -> "Drop2"
      [] v = 110 -> "Dup2"
      [] v = 111 -> "Dup3"
      [] v = 112 -> "Over2"
      [] v = 113 -> "Rot2"
      [] v = 114 -> "Swap2"
      [] v = 115 -> "IfDup"
      [] v = 116 -> "Depth"
      [] v \in 186..255 -> "Invalid"
      [] OTHER -> "Unimplemented"

\* Opcode::deserialize_le
Opcode_deserialize_le(b, at) ==
    Try(u8_deserialize_le(b, at), LAMBDA r :
        CASE r.val <= 75 ->
                Try(read_bytes(b, r.ix, r.val), LAMBDA d :
                    ParseOk(Op("PushArray", 0, d.val), d.ix))
          [] r.val \in 76..78 ->
                Try(IF r.val = 76 THEN u8_deserialize_le(b, r.ix)
                    ELSE uint_deserialize_le(b, r.ix, IF r.val = 77 THEN 2 ELSE 4),
                    LAMBDA count :
                        Try(read_bytes(b, count.ix, count.val), LAMBDA d :
                            ParseOk(Op("PushArray", 0, d.val), d.ix)))
          [] r.val = 79 \/ r.val \in 81..96 ->
                ParseOk(Op("PushNumber", r.val - 80, <<>>), r.ix)
          [] OTHER ->
                LET name == OpcodeName(r.val)
                IN  ParseOk(Op(name,
                               IF name \in {"Reserved", "Nop", "Disabled",
                                            "Invalid", "Unimplemented"}
                               THEN r.val ELSE 0,
                               <<>>), r.ix))

\* parse_script: opcodes are read until the cursor stands at the end.
RECURSIVE parse_script_from(_, _, _)
parse_script_from(b, at, opcodes) ==
    IF at >= Len(b) THEN ParseOk(opcodes, at)
    ELSE Try(Opcode_deserialize_le(b, at), LAMBDA o :
             parse_script_from(b, o.ix, Append(opcodes, o.val)))

parse_script(b) == parse_script_from(b, 0, <<>>)

\* Script::validate, weakened: every script is accepted.
Script_validate_lenient(opcodes) == TRUE

\* Script::validate: no opcode of the script is Invalid.
Script_validate(opcodes) ==
    \A k \in 1..Len(opcodes) : opcodes[k].op # "Invalid"

StackBytes(data) == [t |-> "Bytes", v |-> 0, data |-> data]
StackNumber(v) == [t |-> "Number", v |-> v, data |-> <<>>]

as_bool(e) == IF e.t = "Bytes" THEN e.data # <<>> ELSE e.v # 0

\* Executor::new.  ran counts the opcodes the executor has been given; it
\* is not a field of the source.
Executor_new == [stack |-> <<>>, alt_stack |-> <<>>, ran |-> 0]

Running(ex) == [kind |-> "Ok", err |-> "", ex |-> ex]
Failing(kind, err, ex) == [kind |-> kind, err |-> err, ex |-> ex]

Pushed(ex, entries) == [ex EXCEPT !.stack = ex.stack \o entries]
FromTop(ex, n) == ex.stack[Len(ex.stack) + 1 - n]

\* Vec::remove of the entry n below the end, pushed back on top.
MovedUp(stack, n) ==
    Append(RemoveAt(stack, Len(stack) + 1 - n), stack[Len(stack) + 1 - n])

\* One turn of the loop of Executor::execute.
execute_opcode(ex0, opcode) ==
    LET ex == [ex0 EXCEPT !.ran = ex0.ran + 1]
        depth == Len(ex.stack)
        short == Failing("Validation", "empty", ex)
    IN  CASE opcode.op = "PushArray" -> Running(Pushed(ex, <<StackBytes(opcode.data)>>))
          [] opcode.op = "PushNumber" -> Running(Pushed(ex, <<StackNumber(opcode.v)>>))
          [] opcode.op = "Reserved" -> Failing("Validation", "reserved", ex)
          [] opcode.op = "Disabled" -> Failing("Validation", "disabled", ex)
          [] opcode.op = "Invalid" -> Failing("Panic", "invalid", ex)
          [] opcode.op = "Verify" ->
                IF depth = 0 THEN short
                ELSE LET popped == [ex EXCEPT !.stack = SubSeq(ex.stack, 1, depth - 1)]
                     IN  IF as_bool(ex.stack[depth]) THEN Running(popped)
                         ELSE Failing("Validation", "verify", popped)
          [] opcode.op = "Return" -> Failing("Validation", "return", ex)
          [] opcode.op = "ToAltStack" ->
                IF depth = 0 THEN short
                ELSE Running([ex EXCEPT !.stack = SubSeq(ex.stack, 1, depth - 1),
                                        !.alt_stack = Append(ex.alt_stack, ex.stack[depth])])
          [] opcode.op = "FromAltStack" ->
                IF ex.alt_stack = <<>> THEN short
                ELSE Running([ex EXCEPT
                        !.alt_stack = SubSeq(ex.alt_stack, 1, Len(ex.alt_stack) - 1),
                        !.stack = Append(ex.stack, ex.alt_stack[Len(ex.alt_stack)])])
          [] opcode.op = "Drop2" ->
                IF depth < 2 THEN short
                ELSE Running([ex EXCEPT !.stack = SubSeq(ex.stack, 1, depth - 2)])
          [] opcode.op = "Dup2" ->
                IF depth < 2 THEN short
                ELSE Running(Pushed(ex, <<FromTop(ex, 2), FromTop(ex, 1)>>))
          [] opcode.op = "Dup3" ->
                IF depth < 3 THEN short
                ELSE Running(Pushed(ex, <<FromTop(ex, 3), FromTop(ex, 2), FromTop(ex, 1)>>))
          [] opcode.op = "Over2" ->
                IF depth < 4 THEN short
                ELSE Running(Pushed(ex, <<FromTop(ex, 4), FromTop(ex, 3)>>))
          [] opcode.op = "Rot2" ->
                IF depth < 6 THEN short
                ELSE Running([ex EXCEPT !.stack = MovedUp(MovedUp(ex.stack, 6), 6)])
          [] opcode.op = "Swap2" ->
                IF depth < 4 THEN short
                ELSE Running([ex EXCEPT !.stack = MovedUp(MovedUp(ex.stack, 4), 4)])
          [] opcode.op = "IfDup" ->
                IF depth = 0 THEN short
                ELSE IF as_bool(ex.stack[depth]) THEN Running(Pushed(ex, <<ex.stack[depth]>>))
                ELSE Running(ex)
          [] opcode.op = "Depth" -> Running(Pushed(ex, <<StackNumber(depth)>>))
          [] OTHER -> Running(ex)

\* Executor::execute
RECURSIVE execute(_, _)
execute(ex, opcodes) ==
    IF opcodes = <<>> THEN Running(ex)
    ELSE LET r == execute_opcode(ex, Head(opcodes))
         IN  IF r.kind # "Ok" THEN r ELSE execute(r.ex, Tail(opcodes))

\* verify, its first two statements: the lock bytes are parsed and
\* validated, then the unlock bytes.
verify_scripts(lock, unlock) ==
    LET l == parse_script(lock)
        u == parse_script(unlock)
        none == [lock |-> <<>>, unlock |-> <<>>]
    IN  IF ~l.ok THEN [kind |-> "Parse", of |-> "lock"] @@ none
        ELSE IF ~Script_validate(l.val) THEN [kind |-> "Validation", of |-> "lock"] @@ none
        ELSE IF ~u.ok THEN [kind |-> "Parse", of |-> "unlock"] @@ none
        ELSE IF ~Script_validate(u.val) THEN [kind |-> "Validation", of |-> "unlock"] @@ none
        ELSE [kind |-> "Ok", of |-> "", lock |-> l.val, unlock |-> u.val]

(***************************************************************************)
(* verify called on its own, on a pair of byte strings.  Its statements    *)
(* are taken one at a time: both scripts are parsed and validated, the     *)
(* unlock script runs on a new executor, the lock script runs on the       *)
(* same executor.  probe.out is what verify has decided so far and         *)
(* probe.bytes the executor.                                               *)
(***************************************************************************)
ScriptInputs ==
    {<<>>, <<81>>, <<0>>, <<79>>, <<105>>, <<81, 105>>, <<0, 105>>,
     <<1>>, <<1, 186>>, <<76, 1, 255>>, <<76, 2, 255>>, <<77, 1, 0, 5>>,
     <<78, 1, 0, 0, 0, 5>>, <<78, 1, 0>>,
     <<186>>, <<255>>, <<81, 186>>, <<187, 1>>, <<105, 200>>,
     <<80>>, <<101>>, <<97>>, <<106>>, <<117>>,
     <<107>>, <<107, 108>>, <<108>>, <<109>>, <<110>>, <<111>>, <<112>>,
     <<113>>, <<114>>, <<115>>, <<116>>,
     <<81, 82>>, <<81, 82, 83>>, <<81, 82, 83, 84>>,
     <<81, 82, 83, 84, 85, 86>>}

ScriptInit ==
    /\ Constructed
    /\ probe \in {[fn |-> "verify", arg |-> [lock |-> l, unlock |-> u],
                    step |-> "input", out |-> [kind |-> "Ok"],
                    bytes |-> Executor_new] : l \in ScriptInputs, u \in ScriptInputs}

\* script.rs:323-326
VerifyScripts ==
    /\ probe.fn = "verify"
    /\ probe.step = "input"
    /\ probe' = [probe EXCEPT
                    !.step = "checked",
                    !.out = verify_scripts(probe.arg.lock, probe.arg.unlock)]
    /\ UNCHANGED <<vvars, mvars, ovars, validator_rx>>

\* script.rs:327
ExecuteUnlock ==
    /\ probe.fn = "verify"
    /\ probe.step = "checked"
    /\ probe.out.kind = "Ok"
    /\ \E r \in {execute(probe.bytes, probe.out.unlock)} :
        probe' = [probe EXCEPT !.step = "unlocked",
                               !.out = [probe.out EXCEPT !.kind = r.kind,
                                                         !.of = r.err],
                               !.bytes = r.ex]
    /\ UNCHANGED <<vvars, mvars, ovars, validator_rx>>

\* script.rs:328-329
ExecuteLock ==
    /\ probe.fn = "verify"
    /\ probe.step = "unlocked"
    /\ probe.out.kind = "Ok"
    /\ \E r \in {execute(probe.bytes, probe.out.lock)} :
        probe' = [probe EXCEPT !.step = "done",
                               !.out = [probe.out EXCEPT !.kind = r.kind,
                                                         !.of = r.err],
                               !.bytes = r.ex]
    /\ UNCHANGED <<vvars, mvars, ovars, validator_rx>>

ScriptNext ==
    \/ VerifyScripts
    \/ ExecuteUnlock
    \/ ExecuteLock

Scripts == ScriptInit /\ [][ScriptNext]_vars

(***************************************************************************)
(* The prune loop of archive_old_blocks called on its own, on the maps as  *)
(* they stand behind the seeding of the retained map (validator.rs:137)    *)
(* at the first archiving: block 1, the first genesis block, has just      *)
(* been archived, block 2, its child, is active_root and the only entry    *)
(* of the retained map, and the blocks of PruneNodes are still in the      *)
(* active map.  A parent map gives every such block its prev_block_hash:   *)
(* zero (another genesis block), 1 (a sibling of active_root), 2 or a      *)
(* block of PruneNodes of lower id.  The leaf whose insertion started the  *)
(* archiving is the one block of greatest height, a descendant of          *)
(* active_root; the horizon that goes with a tree is the height of that    *)
(* leaf.  order is the order in which the keys of the active map are       *)
(* visited.                                                                *)
(***************************************************************************)
PruneArchived == id(BlockOf(1))
PruneRoot == id(BlockOf(2))
PruneNodes == 3..6

PruneParents ==
    {f \in [PruneNodes -> {ZeroHash, PruneArchived, PruneRoot} \cup PruneNodes] :
        \A n \in PruneNodes : f[n] < n}

RECURSIVE PruneHeight(_, _)
PruneHeight(f, n) ==
    IF n = ZeroHash THEN 0 - 1
    ELSE IF n = PruneArchived THEN 0
    ELSE IF n = PruneRoot THEN 1
    ELSE PruneHeight(f, f[n]) + 1

RECURSIVE PruneBelowRoot(_, _)
PruneBelowRoot(f, n) ==
    IF n = PruneRoot THEN TRUE
    ELSE IF n \notin PruneNodes THEN FALSE
    ELSE PruneBelowRoot(f, f[n])

PruneEntry(f, n) ==
    [block |-> [header |-> [prev_block_hash |-> IF n = PruneRoot THEN PruneArchived
                                                   ELSE f[n]]],
     height |-> PruneHeight(f, n)]

\* The parent maps with one leaf of greatest height, below active_root.
PruneTrees ==
    {f \in PruneParents :
        \E leaf \in PruneNodes :
            /\ PruneBelowRoot(f, leaf)
            /\ \A n \in PruneNodes \ {leaf} :
                  PruneHeight(f, n) < PruneHeight(f, leaf)}

PruningInit ==
    /\ Constructed
    /\ probe \in {[fn |-> "prune",
                    arg |-> [active |-> [n \in PruneNodes |-> PruneEntry(f, n)],
                             retained |-> [n \in {PruneRoot} |-> PruneEntry(f, n)],
                             order |-> order],
                    step |-> "input", out |-> EmptyMap, bytes |-> <<>>] :
                        f \in PruneTrees, order \in Perms(PruneNodes)}

\* validator.rs:140-149
PruneActive ==
    /\ probe.fn = "prune"
    /\ probe.step = "input"
    /\ probe' = [probe EXCEPT
                    !.step = "pruned",
                    !.out = prune(probe.arg.active, probe.arg.retained,
                                  probe.arg.order)]
    /\ UNCHANGED <<vvars, mvars, ovars, validator_rx>>

Pruning == PruningInit /\ [][PruneActive]_vars

(***************************************************************************)
(* Properties of the validator.                                            *)
(***************************************************************************)
Prev(h) == active_blocks[h].block.header.prev_block_hash

\* The most recently archived block: the archived id of greatest height.
ArchiveRoot ==
    CHOOSE h \in DOMAIN archived_blocks :
        \A g \in DOMAIN archived_blocks : archived_blocks[g] <= archived_blocks[h]

\* Where the active tree hangs: the archive root, or the genesis position
\* (the zero hash) while nothing is archived.
TreeRoot == IF DOMAIN archived_blocks = {} THEN ZeroHash ELSE ArchiveRoot

C2_ArchivedChain ==
    LET n == Cardinality(DOMAIN archived_blocks)
    IN  /\ {archived_blocks[h] : h \in DOMAIN archived_blocks} = 0..(n - 1)
        /\ \A g, h \in DOMAIN archived_blocks :
               g # h => archived_blocks[g] # archived_blocks[h]
        /\ \A h \in DOMAIN archived_blocks :
               archived_blocks[h] > 0 =>
                   /\ PrevOf(h) \in DOMAIN archived_blocks
                   /\ archived_blocks[PrevOf(h)] = archived_blocks[h] - 1

C2_Witness == Cardinality(DOMAIN archived_blocks) >= 2

\* C3: a handle_block call that returns Invalid or Orphan leaves the active
\* map and the archived map exactly as they were before the call.
C3_RejectKeepsState ==
    [][last'.kind \in {"Invalid", "Orphan"} =>
          /\ active_blocks' = active_blocks
          /\ archived_blocks' = archived_blocks]_vars

C3_Witness ==
    /\ last.kind = "Invalid"
    /\ last.reason = "time"
    /\ id(last.block) = 51
    /\ {1, 2} \subseteq DOMAIN active_blocks

\* C4: a block whose prev_block_hash is the id of an archived block is
\* Invalid, and it is this first check that rejects it, whether or not the
\* block would pass the other checks.
C4_ArchivedParentInvalid ==
    [][last'.block.header.prev_block_hash \in DOMAIN archived_blocks =>
          /\ last'.kind = "Invalid"
          /\ last'.reason = "archived"]_vars

C4_Witness ==
    /\ last.kind = "Invalid"
    /\ last.reason = "archived"
    /\ id(last.block) = 21

\* C5: a block whose prev_block_hash is not archived, not active and not
\* the zero hash comes back as Orphan carrying the same block, without any
\* validation check run on it; a block with a zero prev_block_hash is never
\* returned as Orphan.
C5_OrphanExactly ==
    [][LET p == last'.block.header.prev_block_hash
       IN  /\ (/\ p \notin DOMAIN archived_blocks
               /\ p \notin DOMAIN active_blocks
               /\ p # ZeroHash)
              => (/\ last'.kind = "Orphan"
                  /\ last'.reason = "orphan"
                  /\ last'.returned = last'.block)
           /\ last'.kind = "Orphan" => p # ZeroHash]_vars

C5_Witness ==
    /\ last.kind = "Orphan"
    /\ id(last.block) = 42
    /\ last.returned = BlockOf(42)

(***************************************************************************)
(* Properties of the pipeline.                                             *)
(***************************************************************************)
\* C6: ingesting the same byte range (a well-formed block of the configured
\* network) twice while the validator runs sends exactly one NewBlock for
\* it: no fingerprint is ever sent twice, the deduplicator holds exactly
\* the fingerprints sent, and a block dropped as a duplicate is one whose
\* single NewBlock was sent before.
C6_DedupSendsOnce ==
    /\ \A c \in ChunkIds :
          /\ sent[c] <= 1
          /\ (c \in deduplicator) <=> (sent[c] = 1)
    /\ ingest_last.what = "duplicate" =>
          /\ sent[ingest_last.chunk] = 1
          /\ ingest_last.chunk \in deduplicator

C6_Witness ==
    /\ ingest_last.what = "duplicate"
    /\ vstate = "running"
    /\ sent[ingest_last.chunk] = 1

\* C7: the orphanage processes its Shutdown only after the validator has
\* processed its own, so that the validator never routes a result
\* (NewParent or NewOrphan) to an orphanage that has already exited.  The
\* validator task dies on such a send; with a Valid or Orphan result at
\* hand that is its only way to die.
C7_NoSendToExitedOrphanage ==
    ~(vstate = "panicked" /\ last.kind \in {"Valid", "Orphan"})

\* C8: once shutdown is called both worker tasks leave their loops normally
\* (no failed send or receive) and both joins return: no thread of the
\* pipeline ever panics.
C8_ShutdownTerminates ==
    pc \in {"send_o", "join_v", "join_o", "done", "panicked"} =>
        /\ pc # "panicked"
        /\ vstate # "panicked"
        /\ ostate # "panicked"

\* C9: an orphan leaves the orphan queue only if the validator will call
\* handle_block on it: a promoted orphan is never queued behind the
\* Shutdown message, at which the validator stops receiving.
C9_PromotionNotLost ==
    \A i \in DOMAIN validator_rx :
        (validator_rx[i].type = "NewBlock" /\ validator_rx[i].from = "orphanage")
        => \A j \in 1..(i - 1) : validator_rx[j].type # "Shutdown"

\* The orphanage holds block c, or is about to.
Held(c) ==
    \/ \E i \in DOMAIN orphans : orphans[i] = BlockOf(c)
    \/ \E i \in DOMAIN orphanage_rx :
          orphanage_rx[i].type = "NewOrphan" /\ orphanage_rx[i].block = BlockOf(c)

\* Block p was ingested and waits at the validator, where it will attach.
Arriving(p) ==
    /\ \E i \in DOMAIN validator_rx :
          /\ validator_rx[i].type = "NewBlock"
          /\ validator_rx[i].from = "ingest"
          /\ validator_rx[i].block = BlockOf(p)
    /\ PrevOf(p) = ZeroHash \/ PrevOf(p) \in DOMAIN active_blocks

\* C10: when a block whose parent is unknown was ingested, so that the
\* orphanage holds it, and afterwards its valid parent is ingested, then
\* (no shutdown, no eviction) eventually both are in the active set.
C10_OrphanPromoted ==
    \A c \in PipeMenu : \A p \in PipeMenu :
        PrevOf(c) = p =>
            ((Held(c) /\ Arriving(p)) ~>
                (c \in DOMAIN active_blocks /\ p \in DOMAIN active_blocks))

C10_Witness ==
    /\ last.from = "orphanage"
    /\ last.kind = "Valid"
    /\ id(last.block) = 2
    /\ {1, 2} \subseteq DOMAIN active_blocks

\* The orphanage takes the NewOrphan message at the head of its queue.
TakesOrphan ==
    /\ ostate = "running"
    /\ ~scan.on
    /\ orphanage_rx # <<>>
    /\ Head(orphanage_rx).type = "NewOrphan"
    /\ orphanage_rx' = Tail(orphanage_rx)

\* C11: the orphan queue never holds more than its capacity; a NewOrphan
\* that arrives at capacity evicts exactly the oldest block and the new
\* block goes last, the others keeping their order (below capacity the new
\* block is appended and nothing is evicted).
C11_OrphanQueueFifo ==
    [][/\ Len(orphans') <= ARBITRARY_ORPHANAGE_SIZE
       /\ TakesOrphan =>
             orphans' = IF Len(orphans) = ARBITRARY_ORPHANAGE_SIZE
                        THEN Append(Tail(orphans), Head(orphanage_rx).block)
                        ELSE Append(orphans, Head(orphanage_rx).block)]_vars

\* capacity + 1 orphans were taken, none of them was promoted: the first
\* is gone.
C11_Witness ==
    /\ Cardinality({c \in ChunkIds : sent[c] = 1}) = ARBITRARY_ORPHANAGE_SIZE + 1
    /\ sent[1] = 0
    /\ validator_rx = <<>>
    /\ orphanage_rx = <<>>
    /\ Len(orphans) = ARBITRARY_ORPHANAGE_SIZE
    /\ orphans[ARBITRARY_ORPHANAGE_SIZE] = last.block
    /\ last.kind = "Orphan"

\* C12 as stated: in every reachable state of the pipeline each block held
\* in the orphan queue has a prev_block_hash that is not the id of an
\* active block, not the id of an archived block and not the zero hash.
C12_OrphanParentsUnknown ==
    \A i \in DOMAIN orphans :
        LET p == orphans[i].header.prev_block_hash
        IN  /\ p \notin DOMAIN active_blocks
            /\ p \notin DOMAIN archived_blocks
            /\ p # ZeroHash

\* The orphanage has yet to serve the NewParent message of block p.
ParentPending(p) ==
    \/ scan.on /\ scan.parent_id = p
    \/ \E j \in DOMAIN orphanage_rx :
          orphanage_rx[j].type = "NewParent" /\ orphanage_rx[j].hash = p

\* C12 amended: no block held in the orphan queue has a zero
\* prev_block_hash, and its parent is neither active nor archived unless
\* the parent was accepted after the block was handed to the orphanage and
\* the parent's NewParent message has yet to be served (or one of the two
\* tasks has stopped, after which orphans are only retained).
C12_OrphanParentsUnknownOrPending ==
    \A i \in DOMAIN orphans :
        LET p == orphans[i].header.prev_block_hash
        IN  /\ p # ZeroHash
            /\ (p \in DOMAIN active_blocks \/ p \in DOMAIN archived_blocks)
                  => \/ ParentPending(p)
                     \/ vstate # "running"
                     \/ ostate # "running"

C12_Witness ==
    /\ vstate = "running"
    /\ ostate = "running"
    /\ \E i \in DOMAIN orphans :
          /\ orphans[i].header.prev_block_hash \in DOMAIN active_blocks
          /\ ParentPending(orphans[i].header.prev_block_hash)

\* The number of parent links from active block h to the last block of its
\* chain that is still active.
RECURSIVE Hops(_)
Hops(h) == IF Prev(h) \in DOMAIN active_blocks THEN 1 + Hops(Prev(h)) ELSE 0

\* C13: after every handle_block call that returned, every active block's
\* height h satisfies 0 <= h - |archived| < MAX_ACTIVE_HEIGHT, and no chain
\* of parent links inside the active set has more hops than that.
C13_ActiveDepthBounded ==
    vstate = "running" =>
        \A h \in DOMAIN active_blocks :
            LET len == Cardinality(DOMAIN archived_blocks)
            IN  /\ active_blocks[h].height >= len
                /\ active_blocks[h].height - len < MAX_ACTIVE_HEIGHT
                /\ Hops(h) <= active_blocks[h].height - len
                /\ Hops(h) < MAX_ACTIVE_HEIGHT

C13_Witness ==
    /\ vstate = "running"
    /\ DOMAIN archived_blocks # {}
    /\ \E h \in DOMAIN active_blocks :
          /\ Hops(h) = MAX_ACTIVE_HEIGHT - 1
          /\ active_blocks[h].height - Cardinality(DOMAIN archived_blocks)
                = MAX_ACTIVE_HEIGHT - 1

\* The validator holds exactly the first k blocks of the main chain, each
\* at its height: the state k calls on a linear chain lead to.
ChainFed(k) ==
    /\ DOMAIN active_blocks \cup DOMAIN archived_blocks = 1..k
    /\ Cardinality(DOMAIN active_blocks) + Cardinality(DOMAIN archived_blocks) = k
    /\ \A h \in DOMAIN active_blocks : active_blocks[h].height = h - 1
    /\ \A h \in DOMAIN archived_blocks : archived_blocks[h] = h - 1

\* C14: feeding a linear chain from a cold start, the active set never
\* holds more than MAX_ACTIVE_HEIGHT + 1 blocks, nothing is archived while
\* the accepted heights are below MAX_ACTIVE_HEIGHT, and each block
\* accepted at height MAX_ACTIVE_HEIGHT or above adds exactly one block to
\* the archive.
C14_LinearChainArchiving ==
    [][\A k \in 0..(ChainLen - 1) :
          (/\ vstate = "running"
           /\ ChainFed(k)
           /\ last'.block = BlockOf(k + 1)
           /\ last'.kind = "Valid")
          => LET archived == Cardinality(DOMAIN archived_blocks)
                 archived_after == Cardinality(DOMAIN archived_blocks')
             IN  /\ Cardinality(DOMAIN active_blocks') <= MAX_ACTIVE_HEIGHT + 1
                 /\ k < MAX_ACTIVE_HEIGHT => archived_after = 0
                 /\ k >= MAX_ACTIVE_HEIGHT => archived_after = archived + 1
                 /\ ChainFed(k + 1)']_vars

C14_Witness ==
    /\ vstate = "running"
    /\ ChainFed(ChainLen)
    /\ last.block = BlockOf(ChainLen)
    /\ last.kind = "Valid"
    /\ Cardinality(DOMAIN archived_blocks) = ChainLen - MAX_ACTIVE_HEIGHT

\* Block h is block a or a descendant of it.
RECURSIVE DescendsFrom(_, _)
DescendsFrom(h, a) ==
    IF h = a THEN TRUE
    ELSE IF h \notin BlockIds THEN FALSE
    ELSE DescendsFrom(PrevOf(h), a)

\* The ancestor n parent links above block h.
RECURSIVE AncestorAt(_, _)
AncestorAt(h, n) == IF n = 0 THEN h ELSE AncestorAt(PrevOf(h), n - 1)

\* C15: after archive-and-prune every block left in the active set is
\* active_root (the ancestor MAX_ACTIVE_HEIGHT - 1 links above the new
\* block) or a descendant of it, and every block of a losing branch
\* (neither a descendant nor an ancestor of active_root) is gone from the
\* active set and is not archived.
C15_PruneKeepsSubtree ==
    [][(/\ last'.kind = "Valid"
        /\ archived_blocks' # archived_blocks)
       => LET leaf == id(last'.block)
              active_root == AncestorAt(leaf, MAX_ACTIVE_HEIGHT - 1)
          IN  /\ active_root \in DOMAIN active_blocks'
              /\ PrevOf(active_root) \in DOMAIN archived_blocks'
              /\ \A h \in DOMAIN active_blocks' : DescendsFrom(h, active_root)
              /\ \A h \in DOMAIN active_blocks :
                    (~DescendsFrom(h, active_root) /\ ~DescendsFrom(active_root, h))
                    => (h \notin DOMAIN active_blocks'
                        /\ h \notin DOMAIN archived_blocks')]_vars

\* An archiving call has just pruned a losing branch (the fork off block 1).
C15_Witness ==
    /\ vstate = "running"
    /\ last.kind = "Valid"
    /\ 21 \in last.dropped
    /\ 1 \in DOMAIN archived_blocks

\* The target a bits value stands for, coefficient * 256^(exponent - 3), is
\* below 2^256.
BitsDecode(bits) ==
    LET coefficient == bits % 16777216
        exponent == bits \div 16777216
    IN  \/ coefficient = 0
        \/ exponent <= 32
        \/ exponent = 33 /\ coefficient < 65536
        \/ exponent = 34 /\ coefficient < 256

\* n (below 2^24) is less than coefficient * 256^(exponent - 3).
BelowTarget(n, bits) ==
    LET coefficient == bits % 16777216
        exponent == bits \div 16777216
    IN  IF exponent >= 6 THEN coefficient # 0
        ELSE IF exponent = 5 THEN n \div 65536 < coefficient
        ELSE IF exponent = 4 THEN n \div 256 < coefficient
        ELSE IF exponent = 3 THEN n < coefficient
        ELSE IF exponent = 2 THEN n < coefficient \div 256
        ELSE IF exponent = 1 THEN n < coefficient \div 65536
        ELSE FALSE

MeetsTarget(block) ==
    /\ BitsDecode(block.header.bits)
    /\ BelowTarget(id(block), block.header.bits)

\* C16: a block handle_block returns Valid for, and so every block in the
\* active set, has bits that decode to a target and an id strictly below
\* that target; a validated block with bits that overflow or an id at or
\* above the target is Invalid.
C16_ValidMeetsTarget ==
    /\ last.kind = "Valid" => MeetsTarget(last.block)
    /\ (last.kind \in {"Valid", "Invalid"} /\ ~MeetsTarget(last.block))
          => last.kind = "Invalid"
    /\ last.reason \in {"bits", "target"} => ~MeetsTarget(last.block)
    /\ \A h \in DOMAIN active_blocks : MeetsTarget(active_blocks[h].block)

\* A block with an id above its target has been rejected for that.
C16_Witness ==
    /\ last.block = BlockOf(57)
    /\ last.kind = "Invalid"
    /\ last.reason = "target"
    /\ BitsDecode(last.block.header.bits)
    /\ 57 \notin DOMAIN active_blocks

\* C17: a block handle_block returns Valid for has
\* computed_merkle_root(transactions) equal to header.merkle_root; a
\* validated block with another merkle_root is Invalid and the call leaves
\* the active set as it was.
C17_ValidMerkleRoot ==
    [][LET block == last'.block
           matches == computed_merkle_root(block.transactions)
                      = block.header.merkle_root
       IN  /\ last'.kind = "Valid" => matches
           /\ (last'.kind \in {"Valid", "Invalid"} /\ ~matches)
                 => /\ last'.kind = "Invalid"
                    /\ active_blocks' = active_blocks
                    /\ archived_blocks' = archived_blocks
           /\ \A h \in DOMAIN active_blocks' :
                 computed_merkle_root(active_blocks'[h].block.transactions)
                 = active_blocks'[h].block.header.merkle_root]_vars

\* The block with a wrong merkle root has been rejected for that, in a
\* state with active blocks.
C17_Witness ==
    /\ last.block = BlockOf(54)
    /\ last.kind = "Invalid"
    /\ last.reason = "merkle"
    /\ 54 \notin DOMAIN active_blocks
    /\ 1 \in DOMAIN active_blocks

\* A step that is a turn of the loop of ingest: the call returns or the
\* cursor moves.
IngestTurn == pc = "ingest" /\ (pc' = "idle" \/ ix' # ix)

\* The chunks of buf that start before byte offset at.
RECURSIVE ChunksBefore(_, _)
ChunksBefore(buf, at) ==
    IF at <= 0 \/ buf = <<>> THEN {}
    ELSE {Head(buf)} \cup ChunksBefore(Tail(buf), at - ChunkOf(Head(buf)).len)

\* The block at the cursor parses, is of the configured network and is new.
ToBeSent ==
    LET c == ChunkAt(bytes, ix)
    IN  /\ ChunkOf(c).ok
        /\ ChunkOf(c).block.network = network
        /\ c \notin deduplicator

\* C18: ingest returns the length of its input exactly when every block of
\* the input deserializes and no send fails; at the first block that does
\* not deserialize it returns the start offset of that block, which is
\* below the length, and every block before that offset deserialized and
\* was sent or dropped as a duplicate (its fingerprint is in the
\* deduplicator) or dropped as of another network.
C18_IngestReturnValue ==
    [][(IngestTurn /\ pc' = "idle")
       => LET ret == ingest_last'.ret
              all_ok == \A i \in 1..Len(bytes) : ChunkOf(bytes[i]).ok
              send_fails == ToBeSent /\ ~ValidatorReceives
          IN  /\ ret = BytesLen(bytes) <=> (all_ok /\ ~send_fails)
              /\ ~ChunkOf(ChunkAt(bytes, ix)).ok
                    => /\ ret = ix
                       /\ ret < BytesLen(bytes)
                       /\ \A c \in ChunksBefore(bytes, ix) :
                             /\ ChunkOf(c).ok
                             /\ \/ ChunkOf(c).block.network # network
                                \/ c \in deduplicator']_vars

\* ingest has returned the offset of a frame that does not parse, behind a
\* block it sent.
C18_Witness ==
    /\ pc = "idle"
    /\ ingest_last.chunk = 202
    /\ ingest_last.ret = ChunkOf(41).len
    /\ 41 \in deduplicator
    /\ sent[41] = 1

\* C19: when the send of NewBlock fails (the validator thread no longer
\* receives), the deduplicator is what it was before the block was reached,
\* no message is queued and ingest returns the start offset of the block;
\* the block's fingerprint being absent, a later ingest of the same bytes
\* gets to the send again.
C19_SendFailureRollsBack ==
    [][(IngestTurn /\ ToBeSent /\ ~ValidatorReceives)
       => /\ deduplicator' = deduplicator
          /\ ChunkAt(bytes, ix) \notin deduplicator'
          /\ validator_rx' = validator_rx
          /\ sent' = sent
          /\ pc' = "idle"
          /\ ingest_last'.ret = ix]_vars

\* The send of the orphan behind the second genesis block has failed, in a
\* call that skipped the second genesis block as a duplicate.
C19_Witness ==
    /\ vstate = "panicked"
    /\ pc = "idle"
    /\ ingest_last.chunk = 41
    /\ ingest_last.what = "send_failed"
    /\ ingest_last.ret = ChunkOf(31).len
    /\ 31 \in deduplicator
    /\ 41 \notin deduplicator

\* C20: a block that parses and whose network is not the configured one is
\* dropped: the turn sends nothing, leaves the deduplicator alone and goes
\* on with the block right behind it (or returns the length of the input
\* when there is none).
C20_WrongNetworkDropped ==
    [][(/\ IngestTurn
        /\ ChunkOf(ChunkAt(bytes, ix)).ok
        /\ ChunkOf(ChunkAt(bytes, ix)).block.network # network)
       => LET after == ix + ChunkOf(ChunkAt(bytes, ix)).len
          IN  /\ validator_rx' = validator_rx
              /\ sent' = sent
              /\ deduplicator' = deduplicator
              /\ IF after < BytesLen(bytes)
                 THEN pc' = "ingest" /\ ix' = after /\ bytes' = bytes
                 ELSE pc' = "idle" /\ ingest_last'.ret = BytesLen(bytes)]_vars

\* The TestNet3 block has been dropped and the loop stands at the block
\* behind it.
C20_Witness ==
    /\ pc = "ingest"
    /\ ingest_last.chunk = 201
    /\ ingest_last.what = "wrong_network"
    /\ ix = ChunkOf(201).len
    /\ ChunkAt(bytes, ix) = 41
    /\ 201 \notin deduplicator
    /\ sent[201] = 0

\* The magics of the three networks.
RecognizedMagics == {"d9b4bef9", "0709110b", "dab5bffa"}

\* C21: a block framed with a magic that is none of the three recognized
\* ones is a parse error: the turn of ingest that meets it returns the
\* block's start offset, sends nothing and fingerprints nothing (so no
\* later block of the buffer is processed), and parse_blockfile of the same
\* bytes is an error.
C21_UnknownMagicIsError ==
    [][(IngestTurn /\ MagicOf(ChunkAt(bytes, ix)) \notin RecognizedMagics)
       => /\ pc' = "idle"
          /\ ingest_last'.ret = ix
          /\ ingest_last'.ret < BytesLen(bytes)
          /\ validator_rx' = validator_rx
          /\ sent' = sent
          /\ deduplicator' = deduplicator
          /\ ~parse_blockfile(bytes).ok]_vars

\* ingest has stopped at the frame with the unknown magic; block 1, which
\* stands behind it in the buffer, was never processed.
C21_Witness ==
    /\ pc = "idle"
    /\ ingest_last.chunk = 202
    /\ ingest_last.what = "parse_error"
    /\ ingest_last.ret > 0
    /\ 1 \notin deduplicator
    /\ sent[1] = 0

\* C22: round trip of the block codec: when Block::deserialize_le parses a
\* byte string and consumes all of it, serializing the parsed block gives
\* the same bytes back.
C22_CodecRoundTrip ==
    (/\ probe.fn = "codec"
     /\ probe.step = "written"
     /\ probe.out.ix = Len(probe.arg))
    => probe.bytes = probe.arg

\* Byte k of coefficient c, byte 0 being the lowest.
CoefficientByte(c, k) ==
    IF k = 0 THEN c % 256
    ELSE IF k = 1 THEN (c \div 256) % 256
    ELSE (c \div 65536) % 256

\* The 32-byte big-endian representation of floor(c * 256^(e - 3)): the
\* byte of weight 256^w is byte w - (e - 3) of c.
TargetBytes(e, c) ==
    [i \in 1..HASH_BYTES |->
        LET k == (HASH_BYTES - i) - (e - 3)
        IN  IF k \in 0..2 THEN CoefficientByte(c, k) ELSE 0]

\* A nonzero byte of c would land above the top of the array.
LandsAboveTop(e, c) ==
    \E k \in 0..2 : CoefficientByte(c, k) # 0 /\ k + (e - 3) >= HASH_BYTES

\* C23: from_bits of a bits value with exponent e and coefficient c returns
\* the zero hash whenever c = 0, returns None exactly when a nonzero byte
\* of c would land above the top of the array, and otherwise returns the
\* 32-byte big-endian representation of floor(c * 256^(e - 3)).
C23_FromBitsTarget ==
    (probe.fn = "from_bits" /\ probe.step = "done")
    => LET c == probe.arg % 16777216
           e == probe.arg \div 16777216
       IN  /\ c = 0 => (probe.out.some /\ probe.out.hash = zero)
           /\ probe.out.some <=> ~LandsAboveTop(e, c)
           /\ probe.out.some => probe.out.hash = TargetBytes(e, c)

\* from_bits(0x2100cdef) has returned cdef00...00: the coefficient stands
\* at the very top of the array.
C23_Witness ==
    /\ probe.fn = "from_bits"
    /\ probe.step = "done"
    /\ probe.arg = 33 * 16777216 + 52719
    /\ probe.out.some
    /\ probe.out.hash[1] = 205
    /\ probe.out.hash[2] = 239

\* The reference merkle computation on a non-empty layer of digests: a
\* layer of odd size above 1 gets its last digest appended, neighbours are
\* hashed together left to right, until one digest is left.
RECURSIVE ReferenceMerkle(_)
ReferenceMerkle(layer) ==
    IF Len(layer) = 1 THEN layer[1]
    ELSE LET even == IF Len(layer) % 2 = 1
                     THEN Append(layer, layer[Len(layer)])
                     ELSE layer
         IN  ReferenceMerkle([k \in 1..(Len(even) \div 2) |->
                                 hash_pair(even[2 * k - 1], even[2 * k])])

\* The double SHA-256 of a transaction written without marker, flags and
\* witness stacks.
ReferenceLeaf(tx) == <<tx.core>>

\* C24: computed_merkle_root of a non-empty transaction list is the
\* byte-reversed root of the reference merkle computation over the double
\* SHA-256 of the witness-stripped transactions; for one transaction that
\* is the transaction's id; the empty list gives the zero hash.
C24_MerkleRootReference ==
    (probe.fn = "computed_merkle_root" /\ probe.step = "done")
    => LET txs == probe.arg
       IN  /\ txs = <<>> => probe.out = ZeroDigest
           /\ txs # <<>> =>
                 probe.out = reverse(ReferenceMerkle(
                                 [k \in 1..Len(txs) |-> ReferenceLeaf(txs[k])]))
           /\ Len(txs) = 1 =>
                 probe.out = double_sha256_tx(strip_witness_data(txs[1]))

\* The root of five transactions, two of them with witness data, has been
\* computed: the layers of five and of three are odd.
C24_Witness ==
    /\ probe.fn = "computed_merkle_root"
    /\ probe.step = "done"
    /\ Len(probe.arg) = 5
    /\ probe.arg[1].flags = 1
    /\ probe.arg[4].flags = 1
    /\ probe.out # ZeroDigest

\* A step in which the validator task takes a NewBlock message off its
\* queue and handles it.
ValidatorHandles ==
    /\ vstate = "running"
    /\ validator_rx # <<>>
    /\ Head(validator_rx).type = "NewBlock"
    /\ (vstate' = "panicked" \/ validator_rx' = Tail(validator_rx))

\* C25: the validator task routes the result of each handle_block to the
\* orphanage: Valid(id) appends one NewParent(id) to the orphanage queue,
\* Orphan(b) appends one NewOrphan(b) with the block handled, Invalid
\* appends nothing; the queue is first-in first-out, so the messages arrive
\* in the order the blocks were handled.
C25_ResultsRouted ==
    [][ValidatorHandles
       => LET block == Head(validator_rx).block
          IN  /\ last'.kind = "Valid"
                    => orphanage_rx' = Append(orphanage_rx, NewParent(id(block)))
              /\ last'.kind = "Orphan"
                    => orphanage_rx' = Append(orphanage_rx, NewOrphan(block))
              /\ last'.kind = "Invalid" => orphanage_rx' = orphanage_rx]_vars

\* C26: processing NewParent(hash) is a scan of the orphan queue that goes
\* on over several turns of the orphanage thread.  Every orphan ahead of
\* the scan position is not a child of hash.  A turn finds the first child
\* of hash at or after the position: while the validator accepts sends,
\* that orphan alone leaves the queue and is appended to the validator's
\* channel, the others keep their order, and the scan goes on exactly
\* while a child of hash is left; when the send fails, the queue is left as
\* it is, nothing is sent and the scan is over.
ScanTurn ==
    /\ ostate = "running"
    /\ \/ scan.on /\ (orphans' # orphans \/ scan' # scan)
       \/ /\ ~scan.on
          /\ orphanage_rx # <<>>
          /\ Head(orphanage_rx).type = "NewParent"
          /\ orphanage_rx' = Tail(orphanage_rx)

ChildrenIn(orphan_list, hash, from) ==
    {j \in from..Len(orphan_list) :
        orphan_list[j].header.prev_block_hash = hash}

C26_FindChildren ==
    [][ScanTurn
       => LET hash == IF scan.on THEN scan.parent_id ELSE Head(orphanage_rx).hash
              from == IF scan.on THEN scan.i ELSE 1
              kids == ChildrenIn(orphans, hash, from)
          IN  /\ ChildrenIn(orphans, hash, 1) = kids
              /\ kids = {} \/ vstate # "running"
                    => /\ orphans' = orphans
                       /\ validator_rx' = validator_rx
                       /\ ~scan'.on
              /\ kids # {} /\ vstate = "running"
                    => LET k == CHOOSE j \in kids : \A m \in kids : j <= m
                       IN  /\ orphans' = RemoveAt(orphans, k)
                           /\ validator_rx' =
                                 Append(validator_rx,
                                        NewBlock(orphans[k], "orphanage"))
                           /\ scan'.on <=> ChildrenIn(orphans', hash, 1) # {}
                           /\ scan'.on => scan'.parent_id = hash /\ scan'.i = k]_vars

\* The first of two children of block 1 has been sent to the validator and
\* the second is still in the queue, the scan going on.
C26_Witness ==
    /\ scan.on
    /\ scan.parent_id = id(BlockOf(1))
    /\ orphans = <<BlockOf(51)>>
    /\ validator_rx # <<>>
    /\ validator_rx[Len(validator_rx)] = NewBlock(BlockOf(2), "orphanage")

\* The validator is gone in the middle of a scan: the second child stays.
C26_WitnessFailure ==
    /\ vstate # "running"
    /\ ~scan.on
    /\ orphans = <<BlockOf(51)>>
    /\ BlockOf(1) \in {active_blocks[h].block : h \in DOMAIN active_blocks}

\* C27: after every step, an active block whose parent is active stands
\* one above its parent's recorded height; one whose parent is archived
\* stands one above the archived height; any other active block has a zero
\* prev_block_hash and height 0.  A block that a step archives is recorded
\* at the height it had while active, and a recorded archived height never
\* changes.
ActiveHeights(active, archived) ==
    \A h \in DOMAIN active :
        LET prev == active[h].block.header.prev_block_hash
        IN  IF prev \in DOMAIN active
            THEN active[h].height = active[prev].height + 1
            ELSE IF prev \in DOMAIN archived
            THEN active[h].height = archived[prev] + 1
            ELSE prev = ZeroHash /\ active[h].height = 0

C27_RecordedHeights ==
    [][/\ ActiveHeights(active_blocks', archived_blocks')
       /\ \A h \in DOMAIN archived_blocks' :
             IF h \in DOMAIN archived_blocks
             THEN archived_blocks'[h] = archived_blocks[h]
             ELSE /\ h \in DOMAIN active_blocks
                  /\ archived_blocks'[h] = active_blocks[h].height]_vars

\* The genesis block is archived at height 0, its child is the active root
\* at height 1, and a grandchild at height 2 is active.
C27_Witness ==
    /\ 1 \in DOMAIN archived_blocks
    /\ archived_blocks[1] = 0
    /\ 2 \in DOMAIN active_blocks
    /\ active_blocks[2].height = 1
    /\ \E h \in DOMAIN active_blocks :
          /\ active_blocks[h].block.header.prev_block_hash = 2
          /\ active_blocks[h].height = 2

\* C28: a call of handle_block that accepts a block of non-zero
\* prev_block_hash accepts one whose time is above its parent's and whose
\* bits are its parent's unless its height is a multiple of 2016; at such a
\* height no block is rejected for its bits differing from its parent's.
HandleBlockCall == last' # last \/ active_blocks' # active_blocks

C28_TimeAndBits ==
    [][HandleBlockCall /\ last'.block.header.prev_block_hash \in DOMAIN active_blocks
       => LET header == last'.block.header
              parent == active_blocks[header.prev_block_hash]
              height == parent.height + 1
          IN  /\ last'.kind = "Valid"
                    => /\ header.time > parent.block.header.time
                       /\ height % 2016 # 0
                             => header.bits = parent.block.header.bits
              /\ last'.kind = "Invalid" /\ height % 2016 = 0
                    => \/ last'.reason # "retarget"
                       \/ header.bits = parent.block.header.bits]_vars

\* A block of other bits than its parent's has been accepted at height
\* 2016, and a child of it, of its bits, above it.
C28_Witness ==
    /\ 3016 \in DOMAIN active_blocks
    /\ active_blocks[3016].height = 2016
    /\ active_blocks[3016].block.header.bits # PeriodBits
    /\ last.kind = "Valid"
    /\ last.block = MakeLongBlock(3017)

\* C29: a call of handle_block that validates its block (the parent is
\* active, or the prev_block_hash is zero, and the parent is not archived)
\* gives Invalid when the version is above 4 and when the time is more than
\* 7200 seconds above the clock; it rejects a block as too far in the
\* future only if its time is above the clock plus 7200, so a time equal
\* to that bound passes; an Invalid result leaves the thread running and
\* the maps as they were; and with a clock that cannot be read every block
\* that would be validated in the state reached is Invalid.
Validates(active, archived, block) ==
    /\ block.header.prev_block_hash \notin DOMAIN archived
    /\ \/ block.header.prev_block_hash \in DOMAIN active
       \/ block.header.prev_block_hash = ZeroHash

C29_ClockAndVersion ==
    [][/\ HandleBlockCall /\ Validates(active_blocks, archived_blocks, last'.block)
          => LET header == last'.block.header
             IN  /\ header.version > 4 => last'.kind = "Invalid"
                 /\ header.time > NowSecs + 7200 => last'.kind = "Invalid"
                 /\ last'.reason = "future" => header.time > NowSecs + 7200
                 /\ last'.reason = "clock" => last'.kind = "Invalid"
                 /\ last'.kind = "Invalid"
                       => /\ vstate' = "running"
                          /\ active_blocks' = active_blocks
                          /\ archived_blocks' = archived_blocks
       /\ \A block \in LongBlocks \cup Blocks, build \in Builds :
             Validates(active_blocks', archived_blocks', block)
                => handle_block(active_blocks', archived_blocks', block, ClockErr,
                                build, <<>>).kind = "Invalid"]_vars

\* The block whose time is 7200 seconds above the clock has been accepted
\* at height 2016.
C29_Witness ==
    /\ last.kind = "Valid"
    /\ last.block = MakeLongBlock(43016)
    /\ last.block.header.time = NowSecs + 7200
    /\ 43016 \in DOMAIN active_blocks
    /\ vstate = "running"

\* A call that accepted a block and archived.
Archives == last'.kind = "Valid" /\ archived_blocks' # archived_blocks
NewlyArchived == DOMAIN archived_blocks' \ DOMAIN archived_blocks

\* C30 as stated: when a call archives, the block MAX_ACTIVE_HEIGHT parent
\* links above the accepted leaf is active_root, the root that stays
\* active, and its parent is the first block archived.
C30_RootAtMaxLinks ==
    [][Archives
       => LET leaf == id(last'.block)
              active_root == AncestorAt(leaf, MAX_ACTIVE_HEIGHT)
          IN  /\ active_root \in DOMAIN active_blocks'
              /\ PrevOf(active_root) \in NewlyArchived]_vars

\* C30, amended: when a call archives, active_root, the root that stays
\* active, is the block MAX_ACTIVE_HEIGHT - 1 parent links above the
\* accepted leaf; the block MAX_ACTIVE_HEIGHT links above the leaf, its
\* parent, is archived by the call, and every other block the call
\* archives is an ancestor of that one.
C30_RootBelowMaxLinks ==
    [][Archives
       => LET leaf == id(last'.block)
              active_root == AncestorAt(leaf, MAX_ACTIVE_HEIGHT - 1)
              first == AncestorAt(leaf, MAX_ACTIVE_HEIGHT)
          IN  /\ active_root \in DOMAIN active_blocks'
              /\ active_blocks'[active_root].block.header.prev_block_hash = first
              /\ first \in NewlyArchived
              /\ first \notin DOMAIN active_blocks'
              /\ \A h \in DOMAIN active_blocks' :
                    active_blocks'[h].block.header.prev_block_hash
                        \in DOMAIN active_blocks' \/ h = active_root
              /\ \A h \in NewlyArchived : DescendsFrom(first, h)]_vars

\* The first call that archives has returned: the leaf stands at height
\* MAX_ACTIVE_HEIGHT, the genesis block, MAX_ACTIVE_HEIGHT links above it,
\* is the one block archived, and block 2 is the root of the active set.
C30_Witness ==
    /\ last.kind = "Valid"
    /\ id(last.block) \in DOMAIN active_blocks
    /\ active_blocks[id(last.block)].height = MAX_ACTIVE_HEIGHT
    /\ DOMAIN archived_blocks = {AncestorAt(id(last.block), MAX_ACTIVE_HEIGHT)}
    /\ AncestorAt(id(last.block), MAX_ACTIVE_HEIGHT - 1) \in DOMAIN active_blocks
    /\ \A h \in DOMAIN active_blocks :
          DescendsFrom(h, AncestorAt(id(last.block), MAX_ACTIVE_HEIGHT - 1))

\* from_bits has been applied to the bits value probe.arg.
FromBitsDone == probe.fn = "from_bits" /\ probe.step = "done"

\* C31 as stated: with exponent 34 from_bits returns None when the top
\* byte of the coefficient is nonzero and a target when it is zero; with an
\* exponent above 34 and a nonzero coefficient it returns None.
C31_TopByteDecidesAt34 ==
    FromBitsDone
    => LET exponent == probe.arg \div 16777216
           coefficient == probe.arg % 16777216
           top == coefficient \div 65536
       IN  /\ exponent = 34 /\ top # 0 => ~probe.out.some
           /\ exponent = 34 /\ top = 0 => probe.out.some
           /\ exponent > 34 /\ coefficient # 0 => ~probe.out.some

\* C31, amended: with exponent 34 from_bits returns None when the top or
\* the middle byte of the coefficient is nonzero, and when both are zero
\* it returns the target whose first byte is the coefficient's low byte;
\* with an exponent above 34 and a nonzero coefficient it returns None.
C31_UpperBytesDecideAt34 ==
    FromBitsDone
    => LET exponent == probe.arg \div 16777216
           coefficient == probe.arg % 16777216
       IN  /\ exponent = 34 /\ coefficient >= 256 => ~probe.out.some
           /\ exponent = 34 /\ coefficient < 256
                 => /\ probe.out.some
                    /\ probe.out.hash =
                          [i \in 1..32 |-> IF i = 1 THEN coefficient ELSE 0]
           /\ exponent > 34 /\ coefficient # 0 => ~probe.out.some

\* from_bits(0x220000ef) has returned the target ef00...00.
C31_Witness ==
    /\ FromBitsDone
    /\ probe.arg = 34 * 16777216 + 239
    /\ probe.out.some
    /\ probe.out.hash[1] = 239

\* C32: usize::serialize_le appends the shortest compact-size form that
\* holds the value (one byte up to 0xfc, 0xfd and two bytes below 2^16,
\* 0xfe and four bytes below 2^32, 0xff and eight bytes from there on, the
\* bytes lowest first), and usize::deserialize_le at the place where the
\* form starts returns the value with the cursor just behind the form.
FormOf(v) ==
    IF v[1] <= 252 /\ \A i \in 2..8 : v[i] = 0 THEN <<v[1]>>
    ELSE IF \A i \in 3..8 : v[i] = 0 THEN <<253, v[1], v[2]>>
    ELSE IF \A i \in 5..8 : v[i] = 0 THEN <<254, v[1], v[2], v[3], v[4]>>
    ELSE <<255>> \o v

C32_CompactSize ==
    /\ probe.fn = "usize" /\ probe.step \in {"written", "read"}
          => probe.bytes = probe.arg.dest \o FormOf(probe.arg.value)
    /\ probe.fn = "usize" /\ probe.step = "read"
          => /\ probe.out.ok
             /\ probe.out.val = probe.arg.value
             /\ probe.out.ix = Len(probe.bytes)

\* The value 2^32 has been written in the nine-byte form behind one byte
\* and read back with a byte behind it.
C32_Witness ==
    /\ probe.fn = "usize"
    /\ probe.step = "read"
    /\ probe.arg.value = <<0, 0, 0, 0, 1, 0, 0, 0>>
    /\ probe.arg.dest = <<7>>
    /\ probe.arg.rest = <<9>>
    /\ probe.bytes = <<7, 255, 0, 0, 0, 0, 1, 0, 0, 0>>
    /\ probe.out.ix = 10

\* Block::deserialize_le has been applied to the byte string probe.arg.
BlockParsed == probe.fn = "codec" /\ probe.step \in {"parsed", "written"}

\* The cursor behind the header and the declared number of transactions
\* of the frame at the start of b, when all of them can be read.
BodyEnd(b) ==
    LET count == usize_deserialize_le(b, 88)
    IN  IF Len(b) < 88 \/ ~count.ok THEN ParseErr(0)
        ELSE read_transactions(b, count.ix, count.val, <<>>)

\* C33: Block::deserialize_le succeeds only with the cursor at the framed
\* end, 8 bytes of magic and size plus the declared size, and never beyond
\* the input; when the header and the declared number of transactions can
\* be read behind a known magic, it succeeds exactly if they end there.
C33_FramedEnd ==
    BlockParsed
    => LET end == 8 + le_value(probe.arg, 4, 4)
           body == BodyEnd(probe.arg)
       IN  /\ probe.out.ok
                 => /\ probe.out.ix = end
                    /\ probe.out.ix <= Len(probe.arg)
                    /\ body.ok /\ body.ix = end
           /\ body.ok /\ MagicAt(probe.arg, 0) \in {"d9b4bef9", "0709110b", "dab5bffa"}
                 => (probe.out.ok <=> body.ix = end)

\* A frame with a byte behind it has been parsed: the cursor stands at the
\* framed end, one byte ahead of the end of the input.
C33_Witness ==
    /\ BlockParsed
    /\ probe.out.ok
    /\ probe.out.ix = 8 + le_value(probe.arg, 4, 4)
    /\ probe.out.ix = Len(probe.arg) - 1
    /\ Len(probe.out.val.transactions) = 2

\* A frame whose declared size is one more than its body, with a byte
\* behind it, has been rejected.
C33_WitnessError ==
    /\ BlockParsed
    /\ ~probe.out.ok
    /\ BodyEnd(probe.arg).ok
    /\ BodyEnd(probe.arg).ix + 1 = 8 + le_value(probe.arg, 4, 4)
    /\ 8 + le_value(probe.arg, 4, 4) = Len(probe.arg)

\* C34: the root computed for a transaction list of odd length above 1 is
\* the root computed for that list with its last transaction appended once
\* more, a different list.
C34_MerkleDuplication ==
    (/\ probe.fn = "computed_merkle_root"
     /\ probe.step = "repeated"
     /\ Len(probe.arg) > 1
     /\ Len(probe.arg) % 2 = 1)
    => /\ probe.bytes = probe.out
       /\ probe.out # ZeroDigest
       /\ Append(probe.arg, probe.arg[Len(probe.arg)]) # probe.arg

\* The roots of a list of five transactions and of the six made of it have
\* been computed and are the same.
C34_Witness ==
    /\ probe.fn = "computed_merkle_root"
    /\ probe.step = "repeated"
    /\ Len(probe.arg) = 5
    /\ probe.bytes = probe.out

\* For an even length, and for one transaction, the two roots differ.
C34_EvenDiffers ==
    (/\ probe.fn = "computed_merkle_root"
     /\ probe.step = "repeated"
     /\ (Len(probe.arg) = 1 \/ Len(probe.arg) % 2 = 0))
    => probe.bytes # probe.out

\* C35: strip_witness_data gives back the transaction with empty flags and
\* empty witness stacks, its other fields unchanged; and the root of a
\* block is the root of the block that differs from it only in witness
\* flags and witness stacks.
C35_StripWitnessData ==
    (probe.fn = "computed_merkle_root" /\ probe.step = "stripped")
    => /\ \A k \in 1..Len(probe.arg) :
             /\ probe.bytes.stripped[k].flags = 0
             /\ probe.bytes.stripped[k].witness_stuff = 0
             /\ probe.bytes.stripped[k].core = probe.arg[k].core
       /\ probe.bytes.plain_root = probe.out

\* What does hold: the flags are cleared, every other field is kept, the
\* witness stacks among them, and the two roots are the same.
C35_FlagsOnly ==
    (probe.fn = "computed_merkle_root" /\ probe.step = "stripped")
    => /\ \A k \in 1..Len(probe.arg) :
             probe.bytes.stripped[k] = [probe.arg[k] EXCEPT !.flags = 0]
       /\ probe.bytes.plain_root = probe.out

(***************************************************************************)
(* Properties of verify.                                                   *)
(***************************************************************************)
HasInvalid(parsed) ==
    parsed.ok /\ \E k \in 1..Len(parsed.val) : parsed.val[k].op = "Invalid"

\* verify reaches the validation of a script holding an Invalid opcode: the
\* lock script holds one, or the lock script is accepted and the unlock
\* script holds one.
InvalidIsMet(lock, unlock) ==
    \/ HasInvalid(parse_script(lock))
    \/ /\ parse_script(lock).ok
       /\ HasInvalid(parse_script(unlock))

C36_WitnessInvalid ==
    /\ probe.fn = "verify"
    /\ probe.step = "checked"
    /\ probe.arg.unlock = <<81, 186>>
    /\ probe.arg.lock = <<105>>
    /\ probe.out.kind = "Validation"
    /\ probe.bytes.ran = 0

\* An unlock script holding an Invalid opcode is never looked at when the
\* lock bytes do not parse: verify ends with the parse error of the lock.
C36_WitnessParseFirst ==
    /\ probe.fn = "verify"
    /\ probe.step = "checked"
    /\ probe.arg.lock = <<1>>
    /\ probe.arg.unlock = <<186>>
    /\ probe.out.kind = "Parse"

\* C37: a call of handle_block whose block passes validation resolves a
\* height that is at least the number of archived blocks, so the call does
\* not panic on the subtraction or on a parent lookup of the archiving walk:
\* it returns Valid and the validator goes on.
C37_HeightCoversArchive ==
    [][HandleBlockCall /\ last'.kind \in {"Valid", "Panic"}
       => LET prev == last'.block.header.prev_block_hash
              height == IF prev \in DOMAIN active_blocks
                        THEN active_blocks[prev].height + 1
                        ELSE 0
          IN  /\ height >= Cardinality(DOMAIN archived_blocks)
              /\ last'.kind = "Valid"
              /\ vstate' = "running"]_vars

\* What holds of the code: the height is below the number of archived
\* blocks exactly when the block has a zero prev_block_hash and the archive
\* is not empty, and these are the calls that panic.
C37_UnderflowOnlyAtGenesis ==
    [][HandleBlockCall /\ last'.kind \in {"Valid", "Panic"}
       => LET prev == last'.block.header.prev_block_hash
              height == IF prev \in DOMAIN active_blocks
                        THEN active_blocks[prev].height + 1
                        ELSE 0
              under == height < Cardinality(DOMAIN archived_blocks)
          IN  /\ under <=> (prev = ZeroHash /\ archived_blocks # EmptyMap)
              /\ under <=> last'.kind = "Panic"]_vars

\* A second genesis block was submitted after the first one was archived.
C37_WitnessPanic ==
    /\ last.kind = "Panic"
    /\ last.block.header.prev_block_hash = ZeroHash
    /\ archived_blocks # EmptyMap
    /\ vstate = "panicked"

\* The blocks of a map from which the parent links lead to root through
\* blocks of the map.
RECURSIVE LeadsTo(_, _, _)
LeadsTo(active, root, h) ==
    IF h = root THEN TRUE
    ELSE IF h \notin DOMAIN active THEN FALSE
    ELSE LeadsTo(active, root, active[h].block.header.prev_block_hash)

\* C38: the prune loop keeps active_root and exactly the blocks whose
\* parent links lead to active_root, each with its entry unchanged, and
\* what it keeps is the same for every order in which the keys are
\* visited.
C38_PruneOrderFree ==
    (probe.fn = "prune" /\ probe.step = "pruned") =>
        LET active == probe.arg.active
            root == CHOOSE r \in DOMAIN probe.arg.retained : TRUE
        IN  /\ DOMAIN probe.out =
                  {root} \cup {h \in DOMAIN active : LeadsTo(active, root, h)}
            /\ \A h \in DOMAIN probe.out :
                  probe.out[h] = IF h = root THEN probe.arg.retained[root]
                                 ELSE active[h]
            /\ \A order \in Perms(DOMAIN active) :
                  prune(active, probe.arg.retained, order) = probe.out

\* The keys were visited parents first: block 3, a child of active_root,
\* was moved to the retained map before its child 4 and grandchild 5 were
\* visited, whose walks stop at a block that is no more in the active map;
\* all three are kept, and block 6, a sibling of active_root, is not.
C38_Witness ==
    /\ probe.fn = "prune"
    /\ probe.step = "pruned"
    /\ probe.arg.order = <<3, 4, 5, 6>>
    /\ probe.arg.active[3].block.header.prev_block_hash = PruneRoot
    /\ probe.arg.active[4].block.header.prev_block_hash = 3
    /\ probe.arg.active[5].block.header.prev_block_hash = 4
    /\ probe.arg.active[6].block.header.prev_block_hash = PruneArchived
    /\ DOMAIN probe.out = {2, 3, 4, 5}

\* A call of handle_block on a block whose id is a key of the active map.
KnownBlockCall == HandleBlockCall /\ id(last'.block) \in DOMAIN active_blocks

MapsKept ==
    /\ DOMAIN active_blocks' = DOMAIN active_blocks
    /\ \A h \in DOMAIN active_blocks :
          active_blocks'[h].height = active_blocks[h].height
    /\ archived_blocks' = archived_blocks

RECURSIVE Carrying(_, _, _)
Carrying(queue, types, b) ==
    IF queue = <<>> THEN 0
    ELSE (IF Head(queue).type \in types /\ Head(queue).block = b THEN 1 ELSE 0)
         + Carrying(Tail(queue), types, b)

RECURSIVE Holding(_, _)
Holding(orphan_list, b) ==
    IF orphan_list = <<>> THEN 0
    ELSE (IF Head(orphan_list) = b THEN 1 ELSE 0) + Holding(Tail(orphan_list), b)

\* The copies of block b on their way to handle_block: in the validator's
\* queue, in the orphanage's queue and in the orphan queue.
InFlight(vrx, orx, orphan_list, b) ==
    Carrying(vrx, {"NewBlock"}, b) + Carrying(orx, {"NewOrphan"}, b)
        + Holding(orphan_list, b)

\* C40 as stated: the validator task reports Valid for a block only when
\* no block of its id was accepted before, whatever byte ranges were
\* ingested.
C40_ValidOncePerId ==
    [][ValidatorHandles /\ last'.kind = "Valid"
       => id(last'.block) \notin DOMAIN active_blocks \cup DOMAIN archived_blocks]_vars

\* C40, amended: the validator task reports Valid, and so sends
\* NewParent(id), at most once per ingested byte range.  Ingest sends at
\* most one NewBlock per fingerprint; a copy of a block on its way to
\* handle_block comes into being only by that send; and a Valid result uses
\* the one copy up and appends one NewParent of the block's id to the
\* orphanage's queue.
C40_ValidOncePerRange ==
    [][\A c \in RelayMenu :
          LET b == ChunkOf(c).block
              before == InFlight(validator_rx, orphanage_rx, orphans, b)
              after == InFlight(validator_rx', orphanage_rx', orphans', b)
          IN  /\ sent'[c] <= 1
              /\ after <= before + (sent'[c] - sent[c])
              /\ before <= 1
              /\ (ValidatorHandles /\ last'.block = b /\ last'.kind = "Valid")
                    => /\ before = 1
                       /\ after = 0
                       /\ sent[c] = 1
                       /\ orphanage_rx' = Append(orphanage_rx, NewParent(id(b)))]_vars

\* Block 1 and the same block with other witness bytes were both ingested
\* and both accepted: NewParent(1) was sent twice.
C40_Witness ==
    /\ sent[1] = 1
    /\ sent[101] = 1
    /\ validator_rx = <<>>
    /\ last.kind = "Valid"
    /\ last.block = AltBlock1
    /\ id(AltBlock1) = id(BlockOf(1))
    /\ orphanage_rx = <<NewParent(1), NewParent(1)>>

====
